---- MODULE Spec2Model ----
(***************************************************************************)
(* react-broadcast-sync: the useBroadcastChannel hook as a state machine.  *)
(* One endpoint is one hook instance.  Its React state (messages,          *)
(* sentMessages, error, isPingInProgress) and its refs (channel,           *)
(* receivedMessageIds, activeSourcesCollector, batchingTimeoutRef,         *)
(* batchingMessagesRef, batchingErrorRef) are the variables; every         *)
(* callback, timer and effect cleanup of the hook is one action.           *)
(*                                                                         *)
(* Strings that the code takes apart or builds are sequences of tokens     *)
(* (a channel name is a sequence of characters, so that `${a}-${b}` is     *)
(* concatenation and can collide).  A message type is the pair of its      *)
(* prefix ("__INTERNAL__:" or "") and the rest of the string.              *)
(***************************************************************************)
EXTENDS Integers, Sequences, FiniteSets, TLC

\* ------------------------------------------------------------------ bounds
MaxTime == 2        \* the clock runs 1..MaxTime
MaxId == 2          \* envelopes created in one behaviour
MaxRecv == 2        \* length of a received collection
MaxPings == 2       \* ping calls per endpoint
MaxCtl == 3         \* ids that control envelopes (CLEAR, PING, PONG) may take
MaxLen == 2         \* characters of a channel name; a namespace has up to MaxLen - 1

\* ------------------------------------------------------------ the endpoints
E == {"e1", "e2", "e3"}

None == 0 - 1       \* null / undefined / no timer

\* ------------------------------------------------------- messageUtils.ts
INTERNAL_PREFIX == "__INTERNAL__:"
SECRET == "react-broadcast-sync"

\* btoa is an injective encoding of its input string.
Btoa(s) == <<"b64">> \o s

\* fullChannel = `${channelName}-${namespace}`; input = `${SECRET}:${baseType}:${fullChannel}`
getInternalMessageType(baseType, channelName, namespace) ==
    [prefix |-> INTERNAL_PREFIX,
     rest   |-> <<baseType, ":">> \o Btoa(<<SECRET, ":", baseType, ":">> \o channelName \o <<"-">> \o namespace)]

\* a type string chosen by a user that does not start with the prefix
UserType(name) == [prefix |-> "", rest |-> <<name>>]

isInternalType(type) == type.prefix = INTERNAL_PREFIX

\* What a payload on the bus is made of.  An envelope built by createMessage
\* is an object whose id, type and source are strings and whose timestamp is
\* a number; a payload posted by other code on the same bus carries in
\* `kinds` what it is ("object" or "other") and, for each of the four
\* fields, "string", "number", "absent" or, for id, "throws" (an accessor
\* that throws when it is read).
WellShaped ==
    [value |-> "object", id |-> "string", type |-> "string", source |-> "string",
     timestamp |-> "number"]

Kinds(message) == IF "kinds" \in DOMAIN message THEN message.kinds ELSE WellShaped

\* message && typeof message === 'object' && typeof message.type === 'string' &&
\* isInternalType(message.type) && typeof message.source === 'string'
isValidInternalClearMessage(message) ==
    /\ Kinds(message).value = "object"
    /\ Kinds(message).type = "string"
    /\ isInternalType(message.type)
    /\ Kinds(message).source = "string"

\* Boolean(message && typeof message === 'object' && 'id' in message)
isValidMessage(message) ==
    /\ Kinds(message).value = "object"
    /\ Kinds(message).id # "absent"

\* message.expirationDate ? message.expirationDate < Date.now() : false
isMessageExpired(message, clock) ==
    IF message.expirationDate # None /\ message.expirationDate # 0
    THEN message.expirationDate < clock
    ELSE FALSE

NullContent == [ids |-> {}, types |-> {}]

\* options.expirationDate ?? (options.expirationDuration ? timestamp + duration : undefined)
createMessage(id, type, content, source, clock, expirationDate, expirationDuration) ==
    [id |-> id, type |-> type, message |-> content, timestamp |-> clock, source |-> source,
     expirationDate |->
        IF expirationDate # None THEN expirationDate
        ELSE IF expirationDuration # None /\ expirationDuration # 0
             THEN clock + expirationDuration
             ELSE None]

\* ------------------------------------------------------------------ state
VARIABLES
    now,                    \* Date.now()
    nextId,                 \* the random part of generateMessageId: never reused
    cfg,                    \* the options each hook instance was rendered with
    mounted,                \* the component is mounted
    channel,                \* channel.current is a live BroadcastChannel
    closeCalls,             \* how often close() was called on the BroadcastChannel
    cleaningTimer,          \* time left until the cleaning setInterval calls back, or None
    debounceTimer,          \* time left until the debounced cleanup runs, or None
    messages,               \* useState messages
    sentMessages,           \* useState sentMessages
    error,                  \* useState error
    isPingInProgress,       \* useState isPingInProgress
    pingClosure,            \* isPingInProgress as captured by the ping callback the caller holds
    receivedMessageIds,     \* ref: id -> receipt time
    activeSourcesCollector, \* ref: the probe whose collector is current, or None
    collectors,             \* the Set of every probe started: probe -> sequence of sources
    pingTimers,             \* armed probe timeouts: probe -> deadline
    pingResult,             \* resolved probes: probe -> resolved array
    batchingTimeoutRef,     \* ref: deadline of the armed batching timer, or None
    batchingMessagesRef,    \* ref: the pending send buffer
    batchingErrorRef,       \* ref: a transmission failed
    wire,                   \* every successful BroadcastChannel.postMessage, in order
    onMessageCalls,         \* the envelopes the onMessage callback was invoked with, in order
    last                    \* history: the step just taken (read by no action)

vars == <<now, nextId, cfg, mounted, channel, closeCalls, cleaningTimer,
          debounceTimer, messages, sentMessages, error, isPingInProgress,
          pingClosure, receivedMessageIds, activeSourcesCollector, collectors, pingTimers,
          pingResult, batchingTimeoutRef, batchingMessagesRef,
          batchingErrorRef, wire, onMessageCalls, last>>

\* ---------------------------------------------------------------- options
source(e) == cfg[e].sourceName

resolvedChannelName(e) ==
    IF cfg[e].namespace # <<>>
    THEN cfg[e].channelName \o <<"-">> \o cfg[e].namespace
    ELSE cfg[e].channelName

internalTypes(e) ==
    [CLEAR_SENT_MESSAGES |-> getInternalMessageType("CLEAR_SENT_MESSAGES", cfg[e].channelName, cfg[e].namespace),
     PING |-> getInternalMessageType("PING", cfg[e].channelName, cfg[e].namespace),
     PONG |-> getInternalMessageType("PONG", cfg[e].channelName, cfg[e].namespace)]

ERR_UNSUPPORTED == "BroadcastChannel is not supported in this browser. Please check browser compatibility."
ERR_CREATE == "Failed to create BroadcastChannel"
ERR_SEND == "Failed to send message"
ERR_PROCESS == "Error processing broadcast message"
ERR_CALLBACK == "Error in onMessage callback"
NoError == "null"

\* --------------------------------------------------------------- the bus
\* One transmission: who posted it, on which channel name, and the data
\* (a single message, or an array when batch is TRUE).
Post(e, data, batch) == [from |-> e, name |-> resolvedChannelName(e), data |-> data, batch |-> batch]

\* (mutant) every transmission is an array
TransmitArray(w, e, data, batch) == Append(w, Post(e, data, TRUE))

\* (mutant) a transmission takes the head of the bus
TransmitAhead(w, e, data, batch) == <<Post(e, data, batch)>> \o w

Transmit(w, e, data, batch) == Append(w, Post(e, data, batch))

\* The step just taken: the operation, its endpoint, the transmission it
\* read (0 when none) and how many messages it accepted.
Event(op, e, i, accepted) == [op |-> op, e |-> e, i |-> i, accepted |-> accepted]

\* ------------------------------------------------------------- helpers
SeqToSet(s) == {s[i] : i \in 1..Len(s)}

Last(s) == s[Len(s)]

\* Map.get / Map.set on receivedMessageIds
MapGet(map, key) == IF key \in DOMAIN map THEN map[key] ELSE None

MapSet(map, key, value) == [k \in DOMAIN map \cup {key} |-> IF k = key THEN value ELSE map[k]]

MapDelete(map, keys) == [k \in DOMAIN map \ keys |-> map[k]]

EmptyMap == [k \in {} |-> None]

\* ------------------------------------------------------ handleMessage
\* (mutant) the remote clear is not scoped to the clearing sender
KeptBySenderClearAnyOrigin(msg, sender, ids, types) ==
    LET idMatches == ids = {} \/ msg.id \in ids
        typeMatches == types = {} \/ msg.type \in types
    IN  ~(idMatches /\ typeMatches)

\* The filter of the CLEAR_SENT_MESSAGES branch of handleMessage: a message
\* of another sender is kept; a message of `sender` is removed when ids and
\* types both match, an empty list matching everything.
KeptBySenderClear(msg, sender, ids, types) ==
    IF msg.source # sender THEN TRUE
    ELSE LET idMatches == ids = {} \/ msg.id \in ids
             typeMatches == types = {} \/ msg.type \in types
         IN  ~(idMatches /\ typeMatches)

\* (mutant) the self-origin guard is missing
IsSelfMessageNever(e, message) == FALSE

\* message.source === source
IsSelfMessage(e, message) == Kinds(message).source = "string" /\ message.source = source(e)

\* (mutant) the allow-list is not consulted
IsIgnoredTypeNever(e, message) == FALSE

\* stableRegisteredTypes.length > 0 && !stableRegisteredTypes.includes(message.type)
IsIgnoredType(e, message) ==
    /\ cfg[e].registeredTypes # {}
    /\ ~(Kinds(message).type = "string" /\ message.type \in cfg[e].registeredTypes)

\* (mutant) no envelope is a duplicate
IsDuplicateNever(e, rids, message, clock) == FALSE

\* (mutant) the window test is off by one: <= for <
IsDuplicateInclusive(e, rids, message, clock) ==
    LET receivedAt == MapGet(rids, message.id)
    IN  receivedAt # None /\ receivedAt # 0 /\ clock - receivedAt <= cfg[e].deduplicationTTL

\* receivedAt && now - receivedAt < deduplicationTTL
IsDuplicate(e, rids, message, clock) ==
    LET receivedAt == MapGet(rids, message.id)
    IN  receivedAt # None /\ receivedAt # 0 /\ clock - receivedAt < cfg[e].deduplicationTTL

\* (mutant) the keep-latest policy is not applied
AcceptAppend(e, prev, message) == Append(prev, message)

\* setMessages(prev => (keepLatestMessage ? [message] : [...prev, message]))
Accept(e, prev, message) == IF cfg[e].keepLatestMessage THEN <<message>> ELSE Append(prev, message)

\* (mutant) a presence-reply is never collected
CollectPongNever(e, colls, pongSource) == colls

\* (mutant) the collector is a list: no membership test before the add
CollectPongAlways(e, colls, pongSource) ==
    LET probe == activeSourcesCollector[e]
    IN  IF probe # None THEN [colls EXCEPT ![probe] = Append(@, pongSource)] ELSE colls

\* collector && collector.has(pongSource) === false  =>  collector.add(pongSource)
CollectPong(e, colls, pongSource) ==
    LET probe == activeSourcesCollector[e]
    IN  IF probe # None /\ pongSource \notin SeqToSet(colls[probe])
        THEN [colls EXCEPT ![probe] = Append(@, pongSource)]
        ELSE colls

\* The onMessage option: no callback, one callback for every type, or a
\* map from types to callbacks; throwsOn lists the types on which the
\* callback throws.
NoCallback == [kind |-> "none", types |-> {}, throwsOn |-> {}]
CatchAll(throwsOn) == [kind |-> "function", types |-> {}, throwsOn |-> throwsOn]
CallbackMap(types, throwsOn) == [kind |-> "map", types |-> types, throwsOn |-> throwsOn]

\* a callback is registered for the type
HasCallback(e, type) ==
    \/ cfg[e].onMessage.kind = "function"
    \/ cfg[e].onMessage.kind = "map" /\ type \in cfg[e].onMessage.types

\* After acceptance: invoke the registered callback with the envelope; an
\* exception it throws is caught at the call and reported in the error slot.
InvokeCallback(e, st, message) ==
    IF ~HasCallback(e, message.type) THEN st
    ELSE [st EXCEPT !.calls = Append(@, message),
                    !.error = IF message.type \in cfg[e].onMessage.throwsOn
                              THEN ERR_CALLBACK ELSE @]

\* message.id is read by debug.message.expired(message.id) and by
\* receivedMessageIds.current.get(message.id); `'id' in message` does not
\* read it.
IdThrows(message) == Kinds(message).id = "throws"

\* (mutant) the exception is swallowed without a report
CaughtUnreported(st) == st

\* catch (e) { setErrorMessage('Error processing broadcast message') }
Caught(st) == [st EXCEPT !.error = ERR_PROCESS]

\* One pass of handleMessage over the local state st of endpoint e:
\* st.messages, st.rids (receivedMessageIds), st.colls (the collectors),
\* st.wire and st.nextId (a PING is answered with a PONG on the bus);
\* st.accepted counts the messages that reached setMessages; st.error is
\* the error slot, which the catch clause sets.
HandleMessage(e, st, message) ==
    IF ~isValidMessage(message) THEN st
    ELSE IF IsSelfMessage(e, message) THEN st
    ELSE IF isValidInternalClearMessage(message) /\ message.type = internalTypes(e).CLEAR_SENT_MESSAGES
    THEN [st EXCEPT !.messages =
            SelectSeq(@, LAMBDA msg : KeptBySenderClear(msg, message.source,
                                                     message.message.ids, message.message.types))]
    ELSE IF isValidInternalClearMessage(message) /\ message.type = internalTypes(e).PING
    THEN [st EXCEPT !.wire = Transmit(@, e, <<createMessage(st.nextId, internalTypes(e).PONG,
                                                            NullContent, source(e), now, None, None)>>,
                                       FALSE),
                    !.nextId = @ + 1]
    ELSE IF isValidInternalClearMessage(message) /\ message.type = internalTypes(e).PONG
    THEN [st EXCEPT !.colls = CollectPong(e, @, message.source)]
    ELSE IF IsIgnoredType(e, message) THEN st
    ELSE IF isMessageExpired(message, now) THEN (IF IdThrows(message) THEN Caught(st) ELSE st)
    ELSE IF IdThrows(message) THEN Caught(st)
    ELSE IF IsDuplicate(e, st.rids, message, now) THEN st
    ELSE InvokeCallback(e, [st EXCEPT !.rids = MapSet(@, message.id, now),
                                      !.messages = Accept(e, @, message),
                                      !.accepted = @ + 1], message)

\* (mutant) only the first element of an array is handled
HandleAllFirst(e, st, data) ==
    IF data = <<>> THEN st ELSE HandleMessage(e, st, Head(data))

\* event.data.forEach(message => handleMessage({ data: message }))
RECURSIVE HandleAll(_, _, _)
HandleAll(e, st, data) ==
    IF data = <<>> THEN st
    ELSE HandleAll(e, HandleMessage(e, st, Head(data)), Tail(data))

LocalState(e) ==
    [messages |-> messages[e], rids |-> receivedMessageIds[e], colls |-> collectors[e],
     wire |-> wire, nextId |-> nextId, accepted |-> 0, error |-> error[e],
     calls |-> onMessageCalls[e]]

\* The 'message' listener of endpoint e runs on transmission i of the bus.
\* A BroadcastChannel hears the other channel objects of the same name, and
\* nothing once it is closed.
Deliver(e, i) ==
    /\ channel[e]
    /\ wire[i].from # e
    /\ wire[i].name = resolvedChannelName(e)
    /\ LET st == HandleAll(e, LocalState(e), wire[i].data)
       IN  /\ Len(st.messages) <= MaxRecv
           /\ st.nextId <= MaxCtl + 1
           /\ messages' = [messages EXCEPT ![e] = st.messages]
           /\ receivedMessageIds' = [receivedMessageIds EXCEPT ![e] = st.rids]
           /\ collectors' = [collectors EXCEPT ![e] = st.colls]
           /\ wire' = st.wire
           /\ nextId' = st.nextId
           /\ error' = [error EXCEPT ![e] = st.error]
           /\ last' = Event("Deliver", e, i, st.accepted)
           /\ onMessageCalls' = [onMessageCalls EXCEPT ![e] = st.calls]
    /\ UNCHANGED <<now, cfg, mounted, channel, closeCalls, cleaningTimer, debounceTimer, sentMessages, isPingInProgress, pingClosure,
                   activeSourcesCollector, pingTimers, pingResult, batchingTimeoutRef,
                   batchingMessagesRef, batchingErrorRef>>

\* Other code of the same origin posts `data` (one payload, or an array of
\* them) on the bus `name`; payload k is of kinds kinds[k] and carries a new
\* id, the type T1 where it has a type and the source "z" where it has one.
ForeignPayload(id, kinds, clock) ==
    [id |-> id, type |-> [prefix |-> "", rest |-> <<"t1">>], message |-> NullContent,
     timestamp |-> clock, source |-> "z", expirationDate |-> None, kinds |-> kinds]

ForeignPost(name, kinds) ==
    /\ nextId + Len(kinds) - 1 <= MaxId
    /\ nextId' = nextId + Len(kinds)
    /\ wire' = Append(wire, [from |-> "page", name |-> name,
                             data |-> [k \in 1..Len(kinds) |->
                                          ForeignPayload(nextId + k - 1, kinds[k], now)],
                             batch |-> Len(kinds) > 1])
    /\ last' = Event("ForeignPost", "page", 0, 0)
    /\ UNCHANGED <<now, cfg, onMessageCalls, mounted, channel, closeCalls, cleaningTimer, debounceTimer, messages,
                   sentMessages, error, isPingInProgress, pingClosure, receivedMessageIds,
                   activeSourcesCollector, collectors, pingTimers, pingResult,
                   batchingTimeoutRef, batchingMessagesRef, batchingErrorRef>>

\* -------------------------------------------------------- postMessage
\* (mutant) no type is ever batched
shouldSendImmediatelyAlways(e, messageType) == TRUE

shouldSendImmediately(e, messageType) ==
    \/ cfg[e].batchingDelayMs = 0
    \/ cfg[e].batchingDelayMs < 0
    \/ messageType \in cfg[e].excludedBatchMessageTypes

\* (mutant) a send whose transmission threw is not recorded
recordSentOnSuccess(prev, message, failed) == IF failed THEN prev ELSE Append(prev, message)

\* setSentMessages(prev => [...prev, message]), reached on every path of a
\* send that found a channel; failed says whether the transmission threw.
recordSent(prev, message, failed) == Append(prev, message)

\* postMessage(messageType, content, {expirationDate, expirationDuration}); throws says
\* whether channelCurrent.postMessage throws in this call.
PostMessage(e, messageType, expirationDate, expirationDuration, throws) ==
    IF ~channel[e]
    THEN /\ error' = [error EXCEPT ![e] = ERR_UNSUPPORTED]
         /\ last' = Event("PostMessage", e, 0, 0)
         /\ UNCHANGED <<now, nextId, cfg, onMessageCalls, mounted, channel, closeCalls, cleaningTimer, debounceTimer, messages, sentMessages, isPingInProgress,
                        pingClosure, receivedMessageIds, activeSourcesCollector, collectors,
                        pingTimers, pingResult, batchingTimeoutRef, batchingMessagesRef,
                        batchingErrorRef, wire>>
    ELSE LET message == createMessage(nextId, messageType, NullContent, source(e), now,
                                      expirationDate, expirationDuration)
         IN  /\ nextId <= MaxId
             /\ nextId' = nextId + 1
             /\ last' = Event("PostMessage", e, 0, 0)
             /\ IF shouldSendImmediately(e, messageType)
                THEN /\ IF throws
                        THEN /\ error' = [error EXCEPT ![e] = ERR_SEND]
                             /\ batchingErrorRef' = [batchingErrorRef EXCEPT ![e] = TRUE]
                             /\ wire' = wire
                        ELSE /\ wire' = Transmit(wire, e, <<message>>, FALSE)
                             /\ UNCHANGED <<error, batchingErrorRef>>
                     /\ UNCHANGED <<batchingMessagesRef, batchingTimeoutRef>>
                ELSE /\ batchingMessagesRef' = [batchingMessagesRef EXCEPT ![e] = Append(@, message)]
                     /\ batchingTimeoutRef' =
                            IF batchingTimeoutRef[e] = None
                            THEN [batchingTimeoutRef EXCEPT ![e] = now + cfg[e].batchingDelayMs]
                            ELSE batchingTimeoutRef
                     /\ UNCHANGED <<error, batchingErrorRef, wire>>
             /\ sentMessages' = [sentMessages EXCEPT ![e] =
                    recordSent(@, message, shouldSendImmediately(e, messageType) /\ throws)]
             /\ UNCHANGED <<now, cfg, onMessageCalls, mounted, channel, closeCalls, cleaningTimer, debounceTimer, messages, isPingInProgress, pingClosure,
                            receivedMessageIds, activeSourcesCollector, collectors, pingTimers,
                            pingResult>>

\* (mutant) the timer transmits the buffer whatever failed before
BatchTimerFireAnyway(e, throws) ==
    /\ batchingTimeoutRef[e] # None
    /\ now >= batchingTimeoutRef[e]
    /\ last' = Event("BatchTimerFire", e, 0, 0)
    /\ IF throws \/ ~channel[e]
       THEN /\ error' = [error EXCEPT ![e] = ERR_SEND]
            /\ batchingErrorRef' = [batchingErrorRef EXCEPT ![e] = TRUE]
            /\ wire' = wire
       ELSE /\ wire' = Transmit(wire, e, batchingMessagesRef[e], TRUE)
            /\ UNCHANGED <<error, batchingErrorRef>>
    /\ batchingMessagesRef' = [batchingMessagesRef EXCEPT ![e] = <<>>]
    /\ batchingTimeoutRef' = [batchingTimeoutRef EXCEPT ![e] = None]
    /\ UNCHANGED <<now, nextId, cfg, onMessageCalls, mounted, channel, closeCalls, cleaningTimer, debounceTimer, messages, sentMessages, isPingInProgress,
                   pingClosure, receivedMessageIds, activeSourcesCollector, collectors, pingTimers,
                   pingResult>>

\* The callback of the batching timer.  channelCurrent is the channel object
\* the arming call read; posting on it throws once it has been closed.
BatchTimerFire(e, throws) ==
    /\ batchingTimeoutRef[e] # None
    /\ now >= batchingTimeoutRef[e]
    /\ last' = Event("BatchTimerFire", e, 0, 0)
    /\ IF batchingErrorRef[e]
       THEN UNCHANGED <<wire, error, batchingErrorRef>>
       ELSE IF throws \/ ~channel[e]
       THEN /\ error' = [error EXCEPT ![e] = ERR_SEND]
            /\ batchingErrorRef' = [batchingErrorRef EXCEPT ![e] = TRUE]
            /\ wire' = wire
       ELSE /\ wire' = Transmit(wire, e, batchingMessagesRef[e], TRUE)
            /\ UNCHANGED <<error, batchingErrorRef>>
    /\ batchingMessagesRef' = [batchingMessagesRef EXCEPT ![e] = <<>>]
    /\ batchingTimeoutRef' = [batchingTimeoutRef EXCEPT ![e] = None]
    /\ UNCHANGED <<now, nextId, cfg, onMessageCalls, mounted, channel, closeCalls, cleaningTimer, debounceTimer, messages, sentMessages, isPingInProgress,
                   pingClosure, receivedMessageIds, activeSourcesCollector, collectors, pingTimers,
                   pingResult>>

\* --------------------------------------------------------------- clock
Tick ==
    /\ now < MaxTime
    /\ now' = now + 1
    /\ last' = Event("Tick", "", 0, 0)
    /\ UNCHANGED <<nextId, cfg, onMessageCalls, mounted, channel, closeCalls, cleaningTimer, debounceTimer, messages, sentMessages, error, isPingInProgress,
                   pingClosure, receivedMessageIds, activeSourcesCollector, collectors, pingTimers,
                   pingResult, batchingTimeoutRef, batchingMessagesRef, batchingErrorRef, wire>>

\* ---------------------------------------------------------------- ping
\* The calls of ping so far number the probes of an endpoint.
PingCalls(e) == DOMAIN pingResult[e] \cup DOMAIN pingTimers[e]

\* ping(timeoutMs).  The guard reads isPingInProgress as the callback
\* captured it at the render that built it (useCallback dependency).
Ping(e, timeoutMs) ==
    LET probe == Cardinality(PingCalls(e)) + 1
    IN  /\ mounted[e]
        /\ probe <= MaxPings
        /\ last' = Event("Ping", e, 0, 0)
        /\ IF pingClosure[e]
           THEN /\ pingResult' = [pingResult EXCEPT ![e] = MapSet(@, probe, <<>>)]
                /\ UNCHANGED <<nextId, error, isPingInProgress, activeSourcesCollector, collectors,
                               pingTimers, wire>>
           ELSE IF ~channel[e]
           THEN /\ error' = [error EXCEPT ![e] = ERR_UNSUPPORTED]
                /\ pingResult' = [pingResult EXCEPT ![e] = MapSet(@, probe, <<>>)]
                /\ UNCHANGED <<nextId, isPingInProgress, activeSourcesCollector, collectors,
                               pingTimers, wire>>
           ELSE /\ nextId <= MaxCtl
                /\ isPingInProgress' = [isPingInProgress EXCEPT ![e] = TRUE]
                /\ collectors' = [collectors EXCEPT ![e] = MapSet(@, probe, <<>>)]
                /\ activeSourcesCollector' = [activeSourcesCollector EXCEPT ![e] = probe]
                /\ wire' = Transmit(wire, e, <<createMessage(nextId, internalTypes(e).PING, NullContent,
                                                             source(e), now, None, None)>>, FALSE)
                /\ nextId' = nextId + 1
                /\ pingTimers' = [pingTimers EXCEPT ![e] = MapSet(@, probe, now + timeoutMs)]
                /\ UNCHANGED <<error, pingResult>>
        /\ UNCHANGED <<now, cfg, onMessageCalls, mounted, channel, closeCalls, cleaningTimer, debounceTimer, messages, sentMessages, pingClosure,
                       receivedMessageIds, batchingTimeoutRef, batchingMessagesRef, batchingErrorRef>>

\* Timers of one endpoint run in deadline order, and in arming order when
\* the deadlines are equal.
PingTimerIsNext(e, probe) ==
    \A q \in DOMAIN pingTimers[e] :
        q # probe => \/ pingTimers[e][q] > pingTimers[e][probe]
                     \/ (pingTimers[e][q] = pingTimers[e][probe] /\ q > probe)

\* (mutant) the timeout leaves its collector current
ReleaseCollectorNever(current, probe) == current

\* if (activeSourcesCollector.current === collector) activeSourcesCollector.current = null
ReleaseCollector(current, probe) == IF current = probe THEN None ELSE current

\* The setTimeout callback of ping: resolve(Array.from(collector)).
PingTimeout(e, probe) ==
    /\ probe \in DOMAIN pingTimers[e]
    /\ now >= pingTimers[e][probe]
    /\ PingTimerIsNext(e, probe)
    /\ last' = Event("PingTimeout", e, 0, 0)
    /\ isPingInProgress' = [isPingInProgress EXCEPT ![e] = IF mounted[e] THEN FALSE ELSE @]
    /\ activeSourcesCollector' = [activeSourcesCollector EXCEPT ![e] = ReleaseCollector(@, probe)]
    /\ pingResult' = [pingResult EXCEPT ![e] = MapSet(@, probe, collectors[e][probe])]
    /\ pingTimers' = [pingTimers EXCEPT ![e] = MapDelete(@, {probe})]
    /\ UNCHANGED <<now, nextId, cfg, onMessageCalls, mounted, channel, closeCalls, cleaningTimer, debounceTimer, messages, sentMessages, error, pingClosure,
                   receivedMessageIds, collectors, batchingTimeoutRef, batchingMessagesRef,
                   batchingErrorRef, wire>>

\* A re-render rebuilds the ping callback with the current isPingInProgress.
Render(e) ==
    /\ mounted[e]
    /\ pingClosure[e] # isPingInProgress[e]
    /\ last' = Event("Render", e, 0, 0)
    /\ pingClosure' = [pingClosure EXCEPT ![e] = isPingInProgress[e]]
    /\ UNCHANGED <<now, nextId, cfg, onMessageCalls, mounted, channel, closeCalls, cleaningTimer, debounceTimer, messages, sentMessages, error,
                   isPingInProgress, receivedMessageIds, activeSourcesCollector, collectors,
                   pingTimers, pingResult, batchingTimeoutRef, batchingMessagesRef,
                   batchingErrorRef, wire>>

\* ------------------------------------------------------ getLatestMessage
\* The empty string as a type filter (falsy, as an omitted one).
NoType == [prefix |-> "", rest |-> <<>>]

\* for (let i = messages.length - 1; i >= 0; i--): the index (from 1) of the
\* message returned, 0 for null.
RECURSIVE ScanLatest(_, _, _, _)
ScanLatest(msgs, i, src, type) ==
    IF i < 1 THEN 0
    ELSE LET sourceMatches == src = "" \/ msgs[i].source = src
             typeMatches == type = NoType \/ msgs[i].type = type
         IN  IF sourceMatches /\ typeMatches THEN i ELSE ScanLatest(msgs, i - 1, src, type)

\* (mutant) the message with the greatest timestamp among the matching ones
getLatestMessageByTimestamp(msgs, src, type) ==
    LET matching == {i \in 1..Len(msgs) : /\ src = "" \/ msgs[i].source = src
                                          /\ type = NoType \/ msgs[i].type = type}
    IN  IF matching = {} THEN 0
        ELSE CHOOSE i \in matching :
                \A j \in matching : \/ msgs[j].timestamp < msgs[i].timestamp
                                     \/ (msgs[j].timestamp = msgs[i].timestamp /\ j <= i)

getLatestMessage(msgs, src, type) == ScanLatest(msgs, Len(msgs), src, type)

\* getLatestMessage({source, type}): last.i records what it returned.
GetLatestMessage(e, src, type) ==
    /\ mounted[e]
    /\ last' = Event("GetLatestMessage", e, getLatestMessage(messages[e], src, type), 0)
    /\ UNCHANGED <<now, nextId, cfg, onMessageCalls, mounted, channel, closeCalls, cleaningTimer, debounceTimer,
                   messages, sentMessages, error, isPingInProgress, pingClosure,
                   receivedMessageIds, activeSourcesCollector, collectors, pingTimers,
                   pingResult, batchingTimeoutRef, batchingMessagesRef, batchingErrorRef, wire>>

\* ------------------------------------------------------------- clearing
\* prev.filter(msg => !ids.includes(msg.id) && !types.includes(msg.type) && !sources.includes(msg.source))
KeptByClearReceived(msg, ids, types, sources) ==
    /\ ~(msg.id \in ids)
    /\ ~(msg.type \in types)
    /\ ~(msg.source \in sources)

clearReceivedResult(prev, ids, types, sources) ==
    LET hasFilters == ids # {} \/ types # {} \/ sources # {}
    IN  IF hasFilters
        THEN SelectSeq(prev, LAMBDA msg : KeptByClearReceived(msg, ids, types, sources))
        ELSE <<>>

ClearReceivedMessages(e, ids, types, sources) ==
    /\ mounted[e]
    /\ messages' = [messages EXCEPT ![e] = clearReceivedResult(@, ids, types, sources)]
    /\ last' = Event("ClearReceivedMessages", e, 0, 0)
    /\ UNCHANGED <<now, nextId, cfg, onMessageCalls, mounted, channel, closeCalls, cleaningTimer, debounceTimer, sentMessages, error, isPingInProgress,
                   pingClosure, receivedMessageIds, activeSourcesCollector, collectors, pingTimers,
                   pingResult, batchingTimeoutRef, batchingMessagesRef, batchingErrorRef, wire>>

\* (mutant) an entry is removed when either criterion matches
KeptByClearSentEither(msg, own, ids, types) ==
    IF msg.source # own THEN TRUE
    ELSE ~(msg.id \in ids \/ msg.type \in types)

\* The filter of clearSentMessages: the same as the remote one, scoped to
\* the endpoint's own source.
KeptByClearSent(msg, own, ids, types) ==
    IF msg.source # own THEN TRUE
    ELSE LET idMatches == ids = {} \/ msg.id \in ids
             typeMatches == types = {} \/ msg.type \in types
         IN  ~(idMatches /\ typeMatches)

clearSentResult(e, prev, ids, types) ==
    IF ids # {} \/ types # {}
    THEN SelectSeq(prev, LAMBDA msg : KeptByClearSent(msg, source(e), ids, types))
    ELSE <<>>

\* clearSentMessages({ids, types, sync}); channel.current?.postMessage(...) when sync
ClearSentMessages(e, ids, types, sync) ==
    /\ mounted[e]
    /\ sentMessages' = [sentMessages EXCEPT ![e] = clearSentResult(e, @, ids, types)]
    /\ last' = Event("ClearSentMessages", e, 0, 0)
    /\ IF sync /\ channel[e]
       THEN /\ nextId <= MaxCtl
            /\ wire' = Transmit(wire, e, <<createMessage(nextId, internalTypes(e).CLEAR_SENT_MESSAGES,
                                                         [ids |-> ids, types |-> types], source(e),
                                                         now, None, None)>>, FALSE)
            /\ nextId' = nextId + 1
       ELSE UNCHANGED <<wire, nextId>>
    /\ UNCHANGED <<now, cfg, onMessageCalls, mounted, channel, closeCalls, cleaningTimer, debounceTimer, messages, error, isPingInProgress, pingClosure,
                   receivedMessageIds, activeSourcesCollector, collectors, pingTimers, pingResult,
                   batchingTimeoutRef, batchingMessagesRef, batchingErrorRef>>

\* ---------------------------------------------------------- expiry sweep
\* setMessages(prev => prev.filter(msg => !isMessageExpired(msg)))
performCleanup(prev, clock) == SelectSeq(prev, LAMBDA msg : ~isMessageExpired(msg, clock))

\* The callback of the cleaning setInterval: debouncedCleanup().  With
\* cleanupDebounceMs > 0 that is debounce(performCleanup, cleanupDebounceMs):
\* it clears the pending timeout and arms a new one; otherwise it is
\* performCleanup itself.  A debounced cleanup that is due at the same moment
\* was armed before the interval was re-armed and runs first.
IntervalFire(e) ==
    /\ mounted[e]
    /\ cleaningTimer[e] = 0
    /\ debounceTimer[e] # 0
    /\ cleaningTimer' = [cleaningTimer EXCEPT ![e] = cfg[e].cleaningInterval]
    /\ last' = Event("IntervalFire", e, 0, 0)
    /\ IF cfg[e].cleanupDebounceMs > 0
       THEN /\ debounceTimer' = [debounceTimer EXCEPT ![e] = cfg[e].cleanupDebounceMs]
            /\ UNCHANGED messages
       ELSE /\ messages' = [messages EXCEPT ![e] = performCleanup(@, now)]
            /\ UNCHANGED debounceTimer
    /\ UNCHANGED <<now, nextId, cfg, onMessageCalls, mounted, channel, closeCalls, sentMessages, error,
                   isPingInProgress, pingClosure, receivedMessageIds, activeSourcesCollector,
                   collectors, pingTimers, pingResult, batchingTimeoutRef, batchingMessagesRef,
                   batchingErrorRef, wire>>

\* The timeout of debounce(): fn(...lastArgs)
DebounceFire(e) ==
    /\ debounceTimer[e] = 0
    /\ debounceTimer' = [debounceTimer EXCEPT ![e] = None]
    /\ messages' = [messages EXCEPT ![e] = performCleanup(@, now)]
    /\ last' = Event("DebounceFire", e, 0, 0)
    /\ UNCHANGED <<now, nextId, cfg, onMessageCalls, mounted, channel, closeCalls, cleaningTimer, sentMessages,
                   error, isPingInProgress, pingClosure, receivedMessageIds,
                   activeSourcesCollector, collectors, pingTimers, pingResult,
                   batchingTimeoutRef, batchingMessagesRef, batchingErrorRef, wire>>

\* one unit less on a running timer
CountDown(timer) == IF timer = None THEN None ELSE timer - 1

\* One unit of time passes while no sweep timer is due.  The clock stops
\* counting at MaxTime: the sweep compares it with expiration dates only,
\* all of which are below MaxTime, while the timers go on running.
Elapse ==
    /\ \A e \in E : cleaningTimer[e] # 0 /\ debounceTimer[e] # 0
    /\ now' = IF now < MaxTime THEN now + 1 ELSE now
    /\ cleaningTimer' = [e \in E |-> CountDown(cleaningTimer[e])]
    /\ debounceTimer' = [e \in E |-> CountDown(debounceTimer[e])]
    /\ last' = Event("Elapse", "", 0, 0)
    /\ UNCHANGED <<nextId, cfg, onMessageCalls, mounted, channel, closeCalls, messages, sentMessages, error,
                   isPingInProgress, pingClosure, receivedMessageIds, activeSourcesCollector,
                   collectors, pingTimers, pingResult, batchingTimeoutRef, batchingMessagesRef,
                   batchingErrorRef, wire>>

\* ------------------------------------------------------------- teardown
\* (mutant) closeChannel does not clear channel.current
closeChannelResultKept(current) == current

\* closeChannel(): if (bc) { bc.close(); channel.current = null }
closeChannelResult(current) == IF current THEN FALSE ELSE current

\* the calls of bc.close() one closeChannel() makes
closeChannelCloses(current) == IF current THEN 1 ELSE 0

CloseChannel(e) ==
    /\ mounted[e]
    /\ channel' = [channel EXCEPT ![e] = closeChannelResult(@)]
    /\ closeCalls' = [closeCalls EXCEPT ![e] = @ + closeChannelCloses(channel[e])]
    /\ last' = Event("CloseChannel", e, 0, 0)
    /\ UNCHANGED <<cleaningTimer, debounceTimer>>
    /\ UNCHANGED <<now, nextId, cfg, onMessageCalls, mounted, messages, sentMessages, error, isPingInProgress,
                   pingClosure, receivedMessageIds, activeSourcesCollector, collectors, pingTimers,
                   pingResult, batchingTimeoutRef, batchingMessagesRef, batchingErrorRef, wire>>

\* channel.current as the flush cleanup reads it.  React runs the cleanups of
\* an unmounting component in the order the effects were declared: the
\* channel effect, whose cleanup is closeChannel(), is declared first and the
\* flush effect last.
ChannelAtFlush(e) == closeChannelResult(channel[e])

\* Unmount: the cleanups of the four effects, in declaration order.
Unmount(e, throws) ==
    /\ mounted[e]
    /\ mounted' = [mounted EXCEPT ![e] = FALSE]
    /\ last' = Event("Unmount", e, 0, 0)
    /\ channel' = [channel EXCEPT ![e] = closeChannelResult(@)]
    /\ closeCalls' = [closeCalls EXCEPT ![e] = @ + closeChannelCloses(channel[e])]
    /\ IF Len(batchingMessagesRef[e]) > 0 /\ ChannelAtFlush(e) /\ ~batchingErrorRef[e]
       THEN /\ IF throws
               THEN wire' = wire
               ELSE wire' = Transmit(wire, e, batchingMessagesRef[e], TRUE)
            /\ batchingMessagesRef' = [batchingMessagesRef EXCEPT ![e] = <<>>]
       ELSE UNCHANGED <<wire, batchingMessagesRef>>
    /\ batchingTimeoutRef' = [batchingTimeoutRef EXCEPT ![e] = None]
    /\ batchingErrorRef' = [batchingErrorRef EXCEPT ![e] = FALSE]
    /\ cleaningTimer' = [cleaningTimer EXCEPT ![e] = None]
    /\ debounceTimer' = [debounceTimer EXCEPT ![e] = IF cfg[e].cleanupDebounceMs > 0 THEN None ELSE @]
    /\ UNCHANGED <<now, nextId, cfg, onMessageCalls, messages, sentMessages, error, isPingInProgress, pingClosure,
                   receivedMessageIds, activeSourcesCollector, collectors, pingTimers, pingResult>>

\* setTimeout(() => setError(null), 3000)
ErrorTimeout(e) ==
    /\ mounted[e]
    /\ error[e] # NoError
    /\ last' = Event("ErrorTimeout", e, 0, 0)
    /\ error' = [error EXCEPT ![e] = NoError]
    /\ UNCHANGED <<now, nextId, cfg, onMessageCalls, mounted, channel, closeCalls, cleaningTimer, debounceTimer, messages, sentMessages, isPingInProgress,
                   pingClosure, receivedMessageIds, activeSourcesCollector, collectors, pingTimers,
                   pingResult, batchingTimeoutRef, batchingMessagesRef, batchingErrorRef, wire>>

\* Other code of the same origin posts on e's bus one array holding a PING
\* and a PONG of the identity "z", tagged for e's channel.
ForeignControlPost(e) ==
    /\ nextId + 1 <= MaxCtl
    /\ nextId' = nextId + 2
    /\ wire' = Append(wire, [from |-> "page", name |-> resolvedChannelName(e),
                             data |-> <<createMessage(nextId, internalTypes(e).PING, NullContent,
                                                      "z", now, None, None),
                                        createMessage(nextId + 1, internalTypes(e).PONG, NullContent,
                                                      "z", now, None, None)>>,
                             batch |-> TRUE])
    /\ last' = Event("ForeignControlPost", "page", 0, 0)
    /\ UNCHANGED <<now, cfg, onMessageCalls, mounted, channel, closeCalls, cleaningTimer, debounceTimer, messages,
                   sentMessages, error, isPingInProgress, pingClosure, receivedMessageIds,
                   activeSourcesCollector, collectors, pingTimers, pingResult,
                   batchingTimeoutRef, batchingMessagesRef, batchingErrorRef>>

\* ---------------------------------------------------------- dedup purge
\* (mutant) the purge deletes every record
purgeResultAll(e, rids, clock) == EmptyMap

\* for (const [key, timestamp] of receivedMessageIds.current.entries())
\*     if (now - timestamp >= deduplicationTTL) receivedMessageIds.current.delete(key)
purgeResult(e, rids, clock) ==
    MapDelete(rids, {key \in DOMAIN rids : clock - rids[key] >= cfg[e].deduplicationTTL})

\* The callback of the purging setInterval.  Its period is fixed by the code
\* and unrelated to the clock unit, so it may call back at any moment while
\* the component is mounted.
DedupPurge(e) ==
    /\ mounted[e]
    /\ receivedMessageIds' = [receivedMessageIds EXCEPT ![e] = purgeResult(e, @, now)]
    /\ last' = Event("DedupPurge", e, 0, 0)
    /\ UNCHANGED <<now, nextId, cfg, onMessageCalls, mounted, channel, closeCalls, cleaningTimer,
                   debounceTimer, messages, sentMessages, error, isPingInProgress, pingClosure,
                   activeSourcesCollector, collectors, pingTimers, pingResult,
                   batchingTimeoutRef, batchingMessagesRef, batchingErrorRef, wire>>

\* ------------------------------------------------------- configurations
T1 == UserType("t1")
T2 == UserType("t2")
Urgent == UserType("urgent")

\* BroadcastOptions: sourceName, channelName, namespace, registeredTypes,
\* keepLatestMessage, deduplicationTTL, batchingDelayMs, excludedBatchMessageTypes;
\* the expiry sweep is switched off (cleaningInterval <= 0) unless WithSweep
\* switches it on.
Options(src, ch, ns, reg, keep, ttl, delay, excluded) ==
    [sourceName |-> src, channelName |-> ch, namespace |-> ns,
     registeredTypes |-> reg, keepLatestMessage |-> keep,
     deduplicationTTL |-> ttl, batchingDelayMs |-> delay,
     excludedBatchMessageTypes |-> excluded,
     cleaningInterval |-> 0, cleanupDebounceMs |-> 0, onMessage |-> NoCallback]

\* the same options with an onMessage callback
WithCallback(options, onMessage) == [options EXCEPT !.onMessage = onMessage]

\* the same options with cleaningInterval and cleanupDebounceMs given
WithSweep(options, interval, debounceMs) ==
    [options EXCEPT !.cleaningInterval = interval, !.cleanupDebounceMs = debounceMs]

\* The state of every hook instance after its first render and its effects;
\* channels lists, for each endpoint, whether the channel effect could
\* construct its BroadcastChannel.
InitOn(options, channels) ==
    /\ now = 1
    /\ nextId = 1
    /\ cfg \in options
    /\ mounted = [e \in E |-> TRUE]
    /\ channel \in channels
    /\ closeCalls = [e \in E |-> 0]
    /\ cleaningTimer = [e \in E |-> IF cfg[e].cleaningInterval > 0 THEN cfg[e].cleaningInterval ELSE None]
    /\ debounceTimer = [e \in E |-> None]
    /\ messages = [e \in E |-> <<>>]
    /\ sentMessages = [e \in E |-> <<>>]
    /\ error \in {err \in [E -> {NoError, ERR_UNSUPPORTED, ERR_CREATE}] :
                      \A e \in E : channel[e] <=> err[e] = NoError}
    /\ isPingInProgress = [e \in E |-> FALSE]
    /\ pingClosure = [e \in E |-> FALSE]
    /\ receivedMessageIds = [e \in E |-> EmptyMap]
    /\ activeSourcesCollector = [e \in E |-> None]
    /\ collectors = [e \in E |-> EmptyMap]
    /\ pingTimers = [e \in E |-> EmptyMap]
    /\ pingResult = [e \in E |-> EmptyMap]
    /\ batchingTimeoutRef = [e \in E |-> None]
    /\ batchingMessagesRef = [e \in E |-> <<>>]
    /\ batchingErrorRef = [e \in E |-> FALSE]
    /\ wire = <<>>
    /\ onMessageCalls = [e \in E |-> <<>>]
    /\ last = Event("Init", "", 0, 0)

\* Every endpoint constructed its BroadcastChannel.
InitWith(options) == InitOn(options, {[e \in E |-> TRUE]})

\* The data path into e1.  e2 shares e1's channel "x" and namespace "y" and
\* batches everything but T2; in one configuration it also shares e1's
\* sourceName.
ReceiveOptions ==
    {[e1 |-> Options("a", <<"x">>, <<"y">>, reg, FALSE, w, 0, {}),
      e2 |-> Options(src, <<"x">>, <<"y">>, {}, FALSE, 1, 1, {T2}),
      e3 |-> Options("c", <<"x", "-", "y">>, <<>>, {}, FALSE, 1, 0, {})] :
        w \in {0, 1}, src \in {"a", "b"}, reg \in {{}, {T1}}}

Init == InitWith(ReceiveOptions)

Next ==
    \/ \E t \in {T1, T2} : PostMessage("e2", t, None, None, FALSE)
    \/ BatchTimerFire("e2", FALSE)
    \/ \E i \in 1..Len(wire) : Deliver("e1", i)
    \/ \E ids \in {{}, {1}}, types \in {{}, {T1}}, sources \in {{}, {"b"}} :
          ClearReceivedMessages("e1", ids, types, sources)
    \/ Tick

Spec == Init /\ [][Next]_vars

\* The control path into e1.  e2 shares e1's channel and namespace, so its
\* internal types equal e1's; e3 opens channel "x-y" without a namespace:
\* the same bus name "x-y", other internal types.
ControlOptions ==
    {[e1 |-> Options("a", <<"x">>, <<"y">>, reg, FALSE, 1, 0, {}),
      e2 |-> Options("b", <<"x">>, <<"y">>, {}, FALSE, 1, 0, {}),
      e3 |-> Options("c", <<"x", "-", "y">>, <<>>, {}, FALSE, 1, 0, {})] :
        reg \in {{}, {T1}}}

InitControl == InitWith(ControlOptions)

NextControl ==
    \/ PostMessage("e2", T1, None, None, FALSE)
    \/ \E e \in {"e2", "e3"}, ids \in {{}, {1}} : ClearSentMessages(e, ids, {}, TRUE)
    \/ \E i \in 1..Len(wire) : Deliver("e1", i)
    \/ Tick

SpecControl == InitControl /\ [][NextControl]_vars

\* The batching path.  e2 batches with a window of one clock unit and sends
\* Urgent immediately; a transmission of e2 may throw; e2 may close its
\* channel and unmount.  e1 listens on the same bus.  The clock advances
\* while e2's window is open.
BatchOptions ==
    {[e1 |-> Options("a", <<"x">>, <<"y">>, reg, FALSE, 1, 0, {}),
      e2 |-> Options("b", <<"x">>, <<"y">>, {}, FALSE, 1, 1, {Urgent}),
      e3 |-> Options("c", <<"x", "-", "y">>, <<>>, {}, FALSE, 1, 0, {})] :
        reg \in {{}, {T1}}}

InitBatch == InitWith(BatchOptions)

NextBatch ==
    \/ \E t \in {T1, Urgent}, throws \in BOOLEAN : PostMessage("e2", t, None, None, throws)
    \/ \E throws \in BOOLEAN : BatchTimerFire("e2", throws)
    \/ CloseChannel("e2")
    \/ \E throws \in BOOLEAN : Unmount("e2", throws)
    \/ ErrorTimeout("e2")
    \/ \E i \in 1..Len(wire) : Deliver("e1", i)
    \/ batchingTimeoutRef["e2"] # None /\ Tick

SpecBatch == InitBatch /\ [][NextBatch]_vars

\* The presence probe.  e1 probes with a timeout of one clock unit; e2 and
\* e3 share its channel and namespace and answer; e3 carries e1's identity
\* or one of its own.  A peer's listener is run on the transmissions of e1
\* only (on a reply of the other peer it changes nothing), and once per
\* transmission, as the bus delivers it; e1's listener may run again on a
\* reply it has processed.  The clock advances while a probe is armed.
PingOptions ==
    {[e1 |-> Options("a", <<"x">>, <<"y">>, {}, FALSE, 1, 0, {}),
      e2 |-> Options("b", <<"x">>, <<"y">>, {}, FALSE, 1, 0, {}),
      e3 |-> Options(src, <<"x">>, <<"y">>, {}, FALSE, 1, 0, {})] :
        src \in {"a", "c"}}

InitPing == InitWith(PingOptions)

\* the transmissions of e on the bus are fewer than those of e1 up to i
Unanswered(e, i) ==
    Cardinality({j \in 1..Len(wire) : wire[j].from = e})
        < Cardinality({j \in 1..i : wire[j].from = "e1"})

NextPing ==
    \/ Ping("e1", 1)
    \/ Render("e1")
    \/ \E probe \in 1..MaxPings : PingTimeout("e1", probe)
    \/ \E i \in 1..Len(wire) : Deliver("e1", i)
    \/ \E e \in {"e2", "e3"} : \E i \in 1..Len(wire) :
          wire[i].from = "e1" /\ Unanswered(e, i) /\ Deliver(e, i)
    \/ pingTimers["e1"] # EmptyMap /\ Tick

SpecPing == InitPing /\ [][NextPing]_vars

\* Teardown.  e2 batches with a window of one clock unit (Urgent goes out at
\* once), clears its sent history with sync, closes its channel and unmounts;
\* e1 shares its channel and namespace, sends and probes, so that e2 has
\* user envelopes and presence-requests to hear.  The batching timer is the
\* only timer of these runs: the clock is followed while it is armed.
TeardownOptions ==
    {[e1 |-> Options("a", <<"x">>, <<"y">>, {}, FALSE, 1, 0, {}),
      e2 |-> Options("b", <<"x">>, <<"y">>, {}, FALSE, 1, 1, {Urgent}),
      e3 |-> Options("c", <<"x", "-", "y">>, <<>>, {}, FALSE, 1, 0, {})]}

InitTeardown == InitWith(TeardownOptions)

NextTeardown ==
    \/ \E t \in {T1, Urgent} : mounted["e2"] /\ PostMessage("e2", t, None, None, FALSE)
    \/ BatchTimerFire("e2", FALSE)
    \/ ClearSentMessages("e2", {}, {}, TRUE)
    \/ CloseChannel("e2")
    \/ Unmount("e2", FALSE)
    \/ PostMessage("e1", T1, None, None, FALSE)
    \/ Ping("e1", 1)
    \/ \E i \in 1..Len(wire) : Deliver("e2", i)
    \/ batchingTimeoutRef["e2"] # None /\ Tick

SpecTeardown == InitTeardown /\ [][NextTeardown]_vars

\* Teardown during a probe.  e2 probes with a timeout of one clock unit,
\* e1 answers, and e2 closes its channel or unmounts.
NextProbeTeardown ==
    \/ Ping("e2", 1)
    \/ Render("e2")
    \/ \E probe \in 1..MaxPings : PingTimeout("e2", probe)
    \/ CloseChannel("e2")
    \/ Unmount("e2", FALSE)
    \/ \E e \in {"e1", "e2"} : \E i \in 1..Len(wire) : Deliver(e, i)
    \/ Tick

SpecProbeTeardown == InitTeardown /\ [][NextProbeTeardown]_vars

\* Keep-latest.  e1 keeps the latest message only; e2 batches T1 and sends
\* Urgent at once, so that envelopes reach e1 out of creation order.
LatestOptions ==
    {[e1 |-> Options("a", <<"x">>, <<"y">>, reg, TRUE, w, 0, {}),
      e2 |-> Options("b", <<"x">>, <<"y">>, {}, FALSE, 1, 1, {Urgent}),
      e3 |-> Options("c", <<"x", "-", "y">>, <<>>, {}, FALSE, 1, 0, {})] :
        w \in {0, 1}, reg \in {{}, {T1}}}

InitLatest == InitWith(LatestOptions)

NextLatest ==
    \/ \E t \in {T1, Urgent} : PostMessage("e2", t, None, None, FALSE)
    \/ BatchTimerFire("e2", FALSE)
    \/ \E i \in 1..Len(wire) : Deliver("e1", i)
    \/ \E ids \in {{}, {1}} : ClearReceivedMessages("e1", ids, {}, {})
    \/ Tick

SpecLatest == InitLatest /\ [][NextLatest]_vars

\* Expiry.  e1 sweeps with an interval of one clock unit and a debounce of
\* none, one or two units, and does not deduplicate; e2 sends at once, with
\* no expiration date or one of 0, 1, ...
SweepOptions ==
    {[e1 |-> WithSweep(Options("a", <<"x">>, <<"y">>, {}, FALSE, 0, 0, {}), 1, debounceMs),
      e2 |-> Options("b", <<"x">>, <<"y">>, {}, FALSE, 1, 0, {}),
      e3 |-> Options("c", <<"x", "-", "y">>, <<>>, {}, FALSE, 1, 0, {})] :
        debounceMs \in {0, 1, 2}}

InitSweep == InitWith(SweepOptions)

NextSweep ==
    \/ \E expirationDate \in {None} \cup (0..(MaxTime - 1)) :
          PostMessage("e2", T1, expirationDate, None, FALSE)
    \/ \E i \in 1..Len(wire) : Deliver("e1", i)
    \/ IntervalFire("e1")
    \/ DebounceFire("e1")
    \/ Elapse

SpecSweep == InitSweep /\ [][NextSweep]_vars

\* Time passes and a due timer calls back.
SpecSweepFair ==
    /\ SpecSweep
    /\ WF_vars(Elapse)
    /\ WF_vars(IntervalFire("e1"))
    /\ WF_vars(DebounceFire("e1"))

\* Clearing the sent history.  e2 and e3 share e1's channel and namespace
\* and send at once; e2 sends T1 and T2 and clears its sent history by ids
\* and types, with and without sync.
ClearOptions ==
    {[e1 |-> Options("a", <<"x">>, <<"y">>, {}, FALSE, 1, 0, {}),
      e2 |-> Options("b", <<"x">>, <<"y">>, {}, FALSE, 1, 0, {}),
      e3 |-> Options("c", <<"x">>, <<"y">>, {}, FALSE, 1, 0, {})]}

InitClear == InitWith(ClearOptions)

NextClear ==
    \/ \E t \in {T1, T2} : PostMessage("e2", t, None, None, FALSE)
    \/ PostMessage("e3", T1, None, None, FALSE)
    \/ \E ids \in {{}, {1}}, types \in {{}, {T1}}, sync \in BOOLEAN :
          ClearSentMessages("e2", ids, types, sync)
    \/ \E i \in 1..Len(wire) : Deliver("e1", i)

SpecClear == InitClear /\ [][NextClear]_vars

\* No bus handle.  e2 batches with a window of one clock unit (Urgent goes
\* out at once) and probes with a timeout of one clock unit; its
\* BroadcastChannel could not be constructed, or it closes it.
InitUnavailable ==
    InitOn(TeardownOptions, {[e \in E |-> e # "e2" \/ available] : available \in BOOLEAN})

NextUnavailable ==
    \/ \E t \in {T1, Urgent} : PostMessage("e2", t, None, None, FALSE)
    \/ BatchTimerFire("e2", FALSE)
    \/ Ping("e2", 1)
    \/ Render("e2")
    \/ \E probe \in 1..MaxPings : PingTimeout("e2", probe)
    \/ CloseChannel("e2")
    \/ ErrorTimeout("e2")
    \/ Tick

SpecUnavailable == InitUnavailable /\ [][NextUnavailable]_vars

\* Payloads of any shape.  e1 listens on the bus "x-y", with and without an
\* allow-list; e2 sends T1 envelopes on it and other code posts payloads
\* that lack fields or carry them with another kind.
ShapeKinds ==
    [value : {"object"}, id : {"string", "number", "absent"}, type : {"string", "absent"},
     source : {"string", "absent"}, timestamp : {"number", "absent"}]
        \cup {[value |-> "other", id |-> "absent", type |-> "absent", source |-> "absent",
               timestamp |-> "absent"]}

NextShape ==
    \/ PostMessage("e2", T1, None, None, FALSE)
    \/ \E kinds \in ShapeKinds : ForeignPost(resolvedChannelName("e1"), <<kinds>>)
    \/ \E i \in 1..Len(wire) : Deliver("e1", i)

SpecShape == InitControl /\ [][NextShape]_vars

\* Building envelopes.  e2 sends at once, with every combination of an
\* absolute expirationDate and an expirationDuration, at every clock value.
NextEnvelope ==
    \/ \E t \in {T1, T2}, expirationDate \in {None} \cup 0..MaxTime,
          expirationDuration \in {None, 0, 1} :
          PostMessage("e2", t, expirationDate, expirationDuration, FALSE)
    \/ Tick

SpecEnvelope == InitClear /\ [][NextEnvelope]_vars

\* Namespaces.  Three endpoints with three different (channelName,
\* namespace) pairs: ("x", "y"), ("x", "z") and ("x-y", ""); each sends T1
\* at once and listens.
NamespaceOptions ==
    {[e1 |-> Options("a", <<"x">>, <<"y">>, {}, FALSE, 1, 0, {}),
      e2 |-> Options("b", <<"x">>, <<"z">>, {}, FALSE, 1, 0, {}),
      e3 |-> Options("c", <<"x", "-", "y">>, <<>>, {}, FALSE, 1, 0, {})]}

InitNamespace == InitWith(NamespaceOptions)

NextNamespace ==
    \/ \E e \in E : PostMessage(e, T1, None, None, FALSE)
    \/ \E e \in E : \E i \in 1..Len(wire) : Deliver(e, i)
    \/ Tick

SpecNamespace == InitNamespace /\ [][NextNamespace]_vars

\* Internal types.  e1 and e2 take every channel name of 1..MaxLen
\* characters and every namespace of 0..MaxLen - 1 characters over
\* {"x", "-"}; each transmits a remote clear, which carries its
\* CLEAR_SENT_MESSAGES type, and listens.
NamesOfLength(lo, hi) == UNION {[1..n -> {"x", "-"}] : n \in lo..hi}

TagOptions ==
    {[e1 |-> Options("a", ch1, ns1, {}, FALSE, 1, 0, {}),
      e2 |-> Options("b", ch2, ns2, {}, FALSE, 1, 0, {}),
      e3 |-> Options("c", <<"z">>, <<>>, {}, FALSE, 1, 0, {})] :
        ch1 \in NamesOfLength(1, MaxLen), ns1 \in NamesOfLength(0, MaxLen - 1),
        ch2 \in NamesOfLength(1, MaxLen), ns2 \in NamesOfLength(0, MaxLen - 1)}

InitTag == InitWith(TagOptions)

NextTag ==
    \/ \E e \in {"e1", "e2"} : ClearSentMessages(e, {}, {}, TRUE)
    \/ \E e \in {"e1", "e2"} : \E i \in 1..Len(wire) : Deliver(e, i)

SpecTag == InitTag /\ [][NextTag]_vars

\* Querying the received collection.  e2 and e3 share e1's bus and send at
\* once, e2 T1 and e3 T2, at different clock values; e1 takes their
\* envelopes in any order and asks for the latest one by source and type.
NextQuery ==
    \/ PostMessage("e2", T1, None, None, FALSE)
    \/ PostMessage("e3", T2, None, None, FALSE)
    \/ \E i \in 1..Len(wire) : Deliver("e1", i)
    \/ \E src \in {"", "b"}, type \in {NoType, T2} : GetLatestMessage("e1", src, type)
    \/ Tick

SpecQuery == InitClear /\ [][NextQuery]_vars

\* Exceptions while processing.  Other code posts on e1's bus payloads whose
\* id accessor throws, alone or at the head of an array that goes on with a
\* well-formed envelope; e2 sends T1 envelopes; e1's error slot expires.
Throwing == [WellShaped EXCEPT !.id = "throws"]

NextThrow ==
    \/ PostMessage("e2", T1, None, None, FALSE)
    \/ \E kinds \in {<<Throwing>>, <<WellShaped>>, <<Throwing, WellShaped>>} :
          ForeignPost(resolvedChannelName("e1"), kinds)
    \/ \E i \in 1..Len(wire) : Deliver("e1", i)
    \/ ErrorTimeout("e1")

SpecThrow == InitControl /\ [][NextThrow]_vars

\* The onMessage callback.  e1 registers one callback for every type or a
\* map with an entry for T1, which throws on T1 or never, with and without
\* an allow-list; e2 shares its bus, in one configuration also its
\* sourceName, sends T1 and T2 at once and syncs a clear of its sent
\* history; e1 takes each transmission any number of times.
CallbackOptions ==
    {[e1 |-> WithCallback(Options("a", <<"x">>, <<"y">>, reg, FALSE, 1, 0, {}), onMessage),
      e2 |-> Options(src, <<"x">>, <<"y">>, {}, FALSE, 1, 0, {}),
      e3 |-> Options("c", <<"x", "-", "y">>, <<>>, {}, FALSE, 1, 0, {})] :
        reg \in {{}, {T1}}, src \in {"a", "b"},
        onMessage \in {CatchAll({}), CatchAll({T1}), CallbackMap({T1}, {}), CallbackMap({T1}, {T1})}}

InitCallback == InitWith(CallbackOptions)

NextCallback ==
    \/ \E t \in {T1, T2} : PostMessage("e2", t, None, None, FALSE)
    \/ ClearSentMessages("e2", {}, {}, TRUE)
    \/ \E i \in 1..Len(wire) : Deliver("e1", i)
    \/ ErrorTimeout("e1")

SpecCallback == InitCallback /\ [][NextCallback]_vars

\* Arrays on the bus.  e2 batches every type with a window of one clock unit
\* and gives some envelopes the expiration date 1; in one configuration it
\* shares e1's sourceName.  Other code posts arrays of two payloads, the
\* second one without a type, and arrays of control envelopes.  e1, with and
\* without an allow-list, probes and takes each transmission any number of
\* times.
UnwrapOptions ==
    {[e1 |-> Options("a", <<"x">>, <<"y">>, reg, FALSE, 1, 0, {}),
      e2 |-> Options(src, <<"x">>, <<"y">>, {}, FALSE, 1, 1, {}),
      e3 |-> Options("c", <<"x", "-", "y">>, <<>>, {}, FALSE, 1, 0, {})] :
        reg \in {{}, {T1}}, src \in {"a", "b"}}

InitUnwrap == InitWith(UnwrapOptions)

NextUnwrap ==
    \/ \E t \in {T1, T2}, expirationDate \in {None, 1} :
          PostMessage("e2", t, expirationDate, None, FALSE)
    \/ BatchTimerFire("e2", FALSE)
    \/ ForeignPost(resolvedChannelName("e1"), <<WellShaped, [WellShaped EXCEPT !.type = "absent"]>>)
    \/ ForeignControlPost("e1")
    \/ Ping("e1", 1)
    \/ \E i \in 1..Len(wire) : Deliver("e1", i)
    \/ Tick

SpecUnwrap == InitUnwrap /\ [][NextUnwrap]_vars

\* Sending at once.  e2 has a batching window of -1, 0 or 1 clock unit and
\* excludes Urgent from batching or nothing; a transmission of a send may
\* throw.  The clock advances while e2's window is open.
ImmediateOptions ==
    {[e1 |-> Options("a", <<"x">>, <<"y">>, {}, FALSE, 1, 0, {}),
      e2 |-> Options("b", <<"x">>, <<"y">>, {}, FALSE, 1, delay, excluded),
      e3 |-> Options("c", <<"x", "-", "y">>, <<>>, {}, FALSE, 1, 0, {})] :
        delay \in {-1, 0, 1}, excluded \in {{}, {Urgent}}}

InitImmediate == InitWith(ImmediateOptions)

NextImmediate ==
    \/ \E t \in {T1, Urgent}, throws \in BOOLEAN : PostMessage("e2", t, None, None, throws)
    \/ BatchTimerFire("e2", FALSE)
    \/ \E i \in 1..Len(wire) : Deliver("e1", i)
    \/ batchingTimeoutRef["e2"] # None /\ Tick

SpecImmediate == InitImmediate /\ [][NextImmediate]_vars

\* Answering a probe.  e1 probes; e2 shares its channel and namespace, in one
\* configuration also its sourceName, batches T1 with a window of one clock
\* unit or not at all, and hears e1's transmissions any number of times.
\* The clock advances while e2's window is open.
ReplyOptions ==
    {[e1 |-> Options("a", <<"x">>, <<"y">>, {}, FALSE, 1, 0, {}),
      e2 |-> Options(src, <<"x">>, <<"y">>, reg, FALSE, 1, delay, {}),
      e3 |-> Options("c", <<"x", "-", "y">>, <<>>, {}, FALSE, 1, 0, {})] :
        src \in {"a", "b"}, delay \in {0, 1}, reg \in {{}, {T1}}}

InitReply == InitWith(ReplyOptions)

NextReply ==
    \/ Ping("e1", 1)
    \/ Render("e1")
    \/ PingTimeout("e1", 1)
    \/ PostMessage("e2", T1, None, None, FALSE)
    \/ BatchTimerFire("e2", FALSE)
    \/ \E i \in 1..Len(wire) : Deliver("e2", i)
    \/ batchingTimeoutRef["e2"] # None /\ Tick

SpecReply == InitReply /\ [][NextReply]_vars

\* Two probers.  e1 and e2 share channel and namespace and probe with a
\* timeout of one clock unit, e1 again once its probe has resolved, e2 once;
\* e3, on the same channel, sends T1 envelopes.  e1 and e2 hear a
\* transmission while it is the newest on the bus; the clock advances while
\* both probe.
ConcurrentOptions ==
    {[e1 |-> Options("a", <<"x">>, <<"y">>, {}, FALSE, 1, 0, {}),
      e2 |-> Options("b", <<"x">>, <<"y">>, {}, FALSE, 1, 0, {}),
      e3 |-> Options("c", <<"x">>, <<"y">>, {}, FALSE, 1, 0, {})]}

InitConcurrent == InitWith(ConcurrentOptions)

\* Probes of e1 and of e2 are in flight at the same time.
BothProbing == pingTimers["e1"] # EmptyMap /\ pingTimers["e2"] # EmptyMap

NextConcurrent ==
    \/ pingTimers["e1"] = EmptyMap /\ Ping("e1", 1)
    \/ Render("e1")
    \/ \E probe \in 1..MaxPings : PingTimeout("e1", probe)
    \/ PingCalls("e2") = {} /\ Ping("e2", 1)
    \/ PingTimeout("e2", 1)
    \/ PostMessage("e3", T1, None, None, FALSE)
    \/ \E e \in {"e1", "e2"} : wire # <<>> /\ Deliver(e, Len(wire))
    \/ BothProbing /\ Tick

SpecConcurrent == InitConcurrent /\ [][NextConcurrent]_vars

\* Reachable peers.  e1 probes with a timeout of one clock unit, again once
\* its probe has resolved; e2 shares its channel and namespace, answers a
\* presence-request while it is the newest transmission on the bus, and may
\* close its channel while no probe of e1 is in flight.  e1 hears the
\* transmissions in any order.  The clock advances while a probe is armed.

\* e1 is probing and has not recorded a reply in any probe: a transmission
\* is delivered to e1 at most once
NothingHeard ==
    /\ pingTimers["e1"] # EmptyMap
    /\ \A probe \in DOMAIN collectors["e1"] : collectors["e1"][probe] = <<>>

NextReach ==
    \/ pingTimers["e1"] = EmptyMap /\ Ping("e1", 1)
    \/ Render("e1")
    \/ \E probe \in 1..MaxPings : PingTimeout("e1", probe)
    \/ wire # <<>> /\ Deliver("e2", Len(wire))
    \/ pingTimers["e1"] = EmptyMap /\ CloseChannel("e2")
    \/ \E i \in 1..Len(wire) : NothingHeard /\ Deliver("e1", i)
    \/ pingTimers["e1"] # EmptyMap /\ Tick

SpecReach == InitPing /\ [][NextReach]_vars

\* The order of one sender's transmissions.  e2 sends user envelopes with
\* batching off or on, with or without an exclusion list, and clears its
\* sent history with sync; its batching timer fires; e1 hears the newest
\* transmission.  The clock advances while e2's window is open.
OrderOptions ==
    {[e1 |-> Options("a", <<"x">>, <<"y">>, {}, FALSE, 1, 0, {}),
      e2 |-> Options("b", <<"x">>, <<"y">>, {}, FALSE, 1, delay, excluded),
      e3 |-> Options("c", <<"x", "-", "y">>, <<>>, {}, FALSE, 1, 0, {})] :
        delay \in {0, 1}, excluded \in {{}, {Urgent}}}

InitOrder == InitWith(OrderOptions)

NextOrder ==
    \/ \E t \in {T1, Urgent} : PostMessage("e2", t, None, None, FALSE)
    \/ ClearSentMessages("e2", {}, {}, TRUE)
    \/ BatchTimerFire("e2", FALSE)
    \/ wire # <<>> /\ Deliver("e1", Len(wire))
    \/ batchingTimeoutRef["e2"] # None /\ Tick

SpecOrder == InitOrder /\ [][NextOrder]_vars

\* The deduplication window.  e1 deduplicates with a window of 0, 1 or 2
\* clock units and sweeps expired messages every clock unit; e2 sends T1 at
\* once, its first envelope with or without an expiration date; the bus may deliver a
\* transmission again at any time; e1 clears its received collection, and the
\* purge of its deduplication record calls back whenever a record is old
\* enough to be deleted.
DedupOptions ==
    {[e1 |-> WithSweep(Options("a", <<"x">>, <<"y">>, {}, FALSE, ttl, 0, {}), 1, 0),
      e2 |-> Options("b", <<"x">>, <<"y">>, {}, FALSE, 1, 0, {}),
      e3 |-> Options("c", <<"x", "-", "y">>, <<>>, {}, FALSE, 1, 0, {})] :
        ttl \in {0, 1, 2}}

InitDedup == InitWith(DedupOptions)

\* a purge of e1's deduplication record would delete something
SomeRecordIsOld ==
    purgeResult("e1", receivedMessageIds["e1"], now) # receivedMessageIds["e1"]

NextDedup ==
    \/ \E expirationDate \in {None, 1} : (expirationDate = 1 => wire = <<>>) /\ PostMessage("e2", T1, expirationDate, None, FALSE)
    \/ \E i \in 1..Len(wire) : Deliver("e1", i)
    \/ messages["e1"] # <<>> /\ ClearReceivedMessages("e1", {}, {}, {})
    \/ IntervalFire("e1")
    \/ SomeRecordIsOld /\ DedupPurge("e1")
    \/ Elapse

SpecDedup == InitDedup /\ [][NextDedup]_vars

\* ================================================================ claims
\* How often message m occurs in the sequence s.
Count(s, m) == Cardinality({k \in 1..Len(s) : s[k] = m})

\* m passes the guards that come before deduplication at endpoint e.
ReachesDedup(e, m) ==
    /\ isValidMessage(m)
    /\ ~IsSelfMessage(e, m)
    /\ ~isInternalType(m.type)
    /\ ~IsIgnoredType(e, m)
    /\ ~isMessageExpired(m, now)

\* C1 Self-exclusion: no endpoint's received collection ever holds an envelope
\* whose origin is that endpoint's own identity, whatever its allow-list, for
\* single envelopes and batches, and also when another endpoint with the
\* same identity sent it.
C1_SelfExclusion ==
    \A e \in E : \A k \in 1..Len(messages[e]) : messages[e][k].source # source(e)

\* e1 has just processed a batch of two envelopes that e2 sent under e1's
\* own identity.
C1_Witness ==
    /\ last.op = "Deliver" /\ last.e = "e1"
    /\ wire[last.i].batch
    /\ wire[last.i].from = "e2"
    /\ Len(wire[last.i].data) = 2
    /\ \A k \in 1..Len(wire[last.i].data) : wire[last.i].data[k].source = source("e1")

\* C2 Deduplication: at a receiver with window W > 0, an envelope that reaches
\* the deduplication guard and whose id was recorded less than W ago is
\* dropped (the collection and the record keep their values); one whose id
\* has no record, or a record W or more old, is accepted once and its record
\* becomes the arrival time.
C2_Deduplication ==
    [][\A i \in 1..Len(wire) :
          (Deliver("e1", i) /\ cfg["e1"].deduplicationTTL > 0) =>
              \A k \in 1..Len(wire[i].data) :
                  LET m == wire[i].data[k]
                      receivedAt == MapGet(receivedMessageIds["e1"], m.id)
                  IN  ReachesDedup("e1", m) =>
                        IF receivedAt # None /\ now - receivedAt < cfg["e1"].deduplicationTTL
                        THEN /\ receivedMessageIds'["e1"][m.id] = receivedAt
                             /\ Count(messages'["e1"], m) = Count(messages["e1"], m)
                        ELSE /\ receivedMessageIds'["e1"][m.id] = now
                             /\ Count(messages'["e1"], m) = Count(messages["e1"], m) + 1]_vars

\* e1 holds one envelope twice (accepted, and accepted again once the window
\* had passed) and has just dropped a third delivery of it.
C2_Witness ==
    /\ cfg["e1"].deduplicationTTL > 0
    /\ last.op = "Deliver" /\ last.e = "e1" /\ last.accepted = 0
    /\ \E m \in SeqToSet(wire[last.i].data) :
          /\ ReachesDedup("e1", m)
          /\ Count(messages["e1"], m) = 2

\* msg matches every criterion that is given (a non-empty list).
MatchesEveryCriterion(msg, ids, types, sources) ==
    /\ ids = {} \/ msg.id \in ids
    /\ types = {} \/ msg.type \in types
    /\ sources = {} \/ msg.source \in sources

\* C7 clearReceived(filter) removes exactly the messages that match every
\* non-empty criterion among ids, types and sources, keeps the others in
\* order, and removes everything when no criterion is given.
C7_ClearReceivedMatchesAll ==
    [][\A ids \in {{}, {1}}, types \in {{}, {T1}}, sources \in {{}, {"b"}} :
          ClearReceivedMessages("e1", ids, types, sources) =>
              messages'["e1"] =
                  SelectSeq(messages["e1"],
                            LAMBDA msg : ~MatchesEveryCriterion(msg, ids, types, sources))]_vars

\* C6 Control envelopes are never user-visible: no envelope whose type starts
\* with the internal prefix is ever in a received collection, whether or not
\* its type equals one of the receiver's own internal types.
C6_ControlNeverVisible ==
    \A e \in E : \A k \in 1..Len(messages[e]) : ~isInternalType(messages[e][k].type)

\* The envelopes of the batches endpoint e has put on the bus, in order.
RECURSIVE BatchedOnWire(_, _)
BatchedOnWire(e, w) ==
    IF w = <<>> THEN <<>>
    ELSE (IF Head(w).from = e /\ Head(w).batch THEN Head(w).data ELSE <<>>) \o BatchedOnWire(e, Tail(w))

\* No transmission of endpoint e has failed: it is mounted, its channel is
\* open and no failure is recorded.
NoTransmissionFailed(e) == mounted[e] /\ channel[e] /\ ~batchingErrorRef[e]

\* messageType is batched by endpoint e (window > 0, type not excluded).
IsBatchedType(e, messageType) ==
    cfg[e].batchingDelayMs > 0 /\ messageType \notin cfg[e].excludedBatchMessageTypes

\* C3 Batch round-trip: while no transmission of e2 has failed, a send of a
\* non-excluded type transmits nothing and appends its envelope to the pending
\* buffer with the timer armed; the timer's firing makes exactly one
\* transmission, the array of the buffered envelopes in send order, and leaves
\* the buffer empty and no timer armed; the batches on the bus followed by the
\* buffer are exactly the non-excluded envelopes sent, in send order; and an
\* appending receiver that accepts a whole batch holds it in that order.
C3_BatchRoundTrip ==
    [][/\ \A t \in {T1, Urgent}, throws \in BOOLEAN :
             (PostMessage("e2", t, None, None, throws) /\ channel["e2"] /\ IsBatchedType("e2", t)) =>
                 /\ wire' = wire
                 /\ batchingMessagesRef'["e2"] = Append(batchingMessagesRef["e2"], Last(sentMessages'["e2"]))
                 /\ Last(sentMessages'["e2"]).id = nextId
                 /\ batchingTimeoutRef'["e2"] # None
       /\ (BatchTimerFire("e2", FALSE) /\ NoTransmissionFailed("e2")) =>
                 /\ wire' = Append(wire, Post("e2", batchingMessagesRef["e2"], TRUE))
                 /\ batchingMessagesRef["e2"] # <<>>
                 /\ batchingMessagesRef'["e2"] = <<>>
                 /\ batchingTimeoutRef'["e2"] = None
       /\ NoTransmissionFailed("e2")' =>
                 (BatchedOnWire("e2", wire) \o batchingMessagesRef["e2"])' =
                     SelectSeq(sentMessages["e2"], LAMBDA m : IsBatchedType("e2", m.type))'
       /\ \A i \in 1..Len(wire) :
             (Deliver("e1", i) /\ wire[i].batch /\ last'.accepted = Len(wire[i].data)) =>
                 messages'["e1"] = messages["e1"] \o wire[i].data]_vars

\* e2 sent two envelopes in one window, its timer fired and e1 has just
\* accepted the whole batch.
C3_Witness ==
    /\ last.op = "Deliver" /\ last.e = "e1" /\ last.accepted = 2
    /\ wire[last.i].batch /\ wire[last.i].from = "e2"
    /\ Len(wire[last.i].data) = 2
    /\ Len(wire) = 1
    /\ messages["e1"] = wire[last.i].data
    /\ batchingMessagesRef["e2"] = <<>> /\ batchingTimeoutRef["e2"] = None
    /\ NoTransmissionFailed("e2")

\* C4 Teardown flush: an unmount with a non-empty pending buffer, an open
\* channel and no recorded failure transmits the buffer as one batch, empties
\* it and cancels the timer.
C4_TeardownFlush ==
    [][(/\ Unmount("e2", FALSE)
        /\ batchingMessagesRef["e2"] # <<>>
        /\ channel["e2"]
        /\ ~batchingErrorRef["e2"]) =>
            /\ wire' = Append(wire, Post("e2", batchingMessagesRef["e2"], TRUE))
            /\ batchingMessagesRef'["e2"] = <<>>
            /\ batchingTimeoutRef'["e2"] = None]_vars

\* An immediate send of endpoint e whose transmission threw: it is in
\* sentMessages and not on the bus.
FailedImmediateSends(e) ==
    {m \in SeqToSet(sentMessages[e]) :
        /\ ~IsBatchedType(e, m.type)
        /\ \A i \in 1..Len(wire) : m \notin SeqToSet(wire[i].data)}

\* No send failed since the pending window of endpoint e opened (ids grow
\* with every envelope created).
WindowIsClean(e) ==
    \A m \in FailedImmediateSends(e) : m.id < batchingMessagesRef[e][1].id

\* C5 A failure poisons one window only: when the timer of a window fires in
\* which no transmission failed (the endpoint open, the transmission not
\* throwing), the buffered envelopes are transmitted, also after an earlier
\* failure.
C5_FailurePoisonsOneWindow ==
    [][(/\ BatchTimerFire("e2", FALSE)
        /\ mounted["e2"] /\ channel["e2"]
        /\ batchingMessagesRef["e2"] # <<>>
        /\ WindowIsClean("e2")) =>
            wire' = Append(wire, Post("e2", batchingMessagesRef["e2"], TRUE))]_vars

\* The probes of endpoint e that were started and whose timeout has fired.
ResolvedProbes(e) == DOMAIN pingResult[e] \cap DOMAIN collectors[e]

\* Transmission i is a presence-reply as endpoint e understands it.
IsPong(e, i) == ~wire[i].batch /\ wire[i].data[1].type = internalTypes(e).PONG

\* C8 Probe exclusivity: a call of ping made while an earlier probe of the
\* endpoint has not timed out resolves empty, transmits nothing and creates
\* no collector (the current collector stays the earlier probe's).
C8_ProbeExclusivity ==
    [][(Ping("e1", 1) /\ DOMAIN pingTimers["e1"] # {}) =>
          /\ wire' = wire
          /\ collectors' = collectors
          /\ activeSourcesCollector' = activeSourcesCollector
          /\ pingTimers' = pingTimers
          /\ \E probe \in DOMAIN pingResult'["e1"] \ DOMAIN pingResult["e1"] :
                pingResult'["e1"][probe] = <<>>]_vars

\* C9 Probe late-arrival rejection: the timeout of a probe resolves it with
\* the contents of its collector at that moment, and from then on no step,
\* in particular no presence-reply processed later, changes the resolved set
\* or adds to that collector, also while a later probe is in flight.
C9_LateReplyRejected ==
    [][/\ \A probe \in DOMAIN pingTimers["e1"] :
             PingTimeout("e1", probe) => pingResult'["e1"][probe] = collectors["e1"][probe]
       /\ \A probe \in ResolvedProbes("e1") :
             /\ pingResult'["e1"][probe] = pingResult["e1"][probe]
             /\ collectors'["e1"][probe] = pingResult["e1"][probe]]_vars

\* Probe 1 of e1 has timed out, probe 2 is in flight, and e1 has just
\* processed a presence-reply of an identity that probe 1 did not resolve
\* with: it is in the collector of probe 2 only.
C9_Witness ==
    /\ 1 \in ResolvedProbes("e1")
    /\ 2 \in DOMAIN pingTimers["e1"]
    /\ last.op = "Deliver" /\ last.e = "e1"
    /\ IsPong("e1", last.i)
    /\ wire[last.i].data[1].source \notin SeqToSet(pingResult["e1"][1])
    /\ wire[last.i].data[1].source \in SeqToSet(collectors["e1"][2])

\* C10 Probe result contract: no collector and no resolved set of a probe
\* holds the prober's own identity, and none holds an identity twice.
C10_ProbeResult ==
    \A e \in E :
        /\ \A probe \in DOMAIN pingResult[e] :
              /\ source(e) \notin SeqToSet(pingResult[e][probe])
              /\ Cardinality(SeqToSet(pingResult[e][probe])) = Len(pingResult[e][probe])
        /\ \A probe \in DOMAIN collectors[e] :
              /\ source(e) \notin SeqToSet(collectors[e][probe])
              /\ Cardinality(SeqToSet(collectors[e][probe])) = Len(collectors[e][probe])

\* While a probe of e1 is in flight whose collector already holds "b" and
\* then "c", e1 has just processed another presence-reply of identity "b".
C10_Witness ==
    /\ last.op = "Deliver" /\ last.e = "e1"
    /\ IsPong("e1", last.i)
    /\ wire[last.i].data[1].source = "b"
    /\ activeSourcesCollector["e1"] # None
    /\ collectors["e1"][activeSourcesCollector["e1"]] = <<"b", "c">>

\* C11 Probe completeness: every presence-reply of another identity that e1
\* processes while a probe of e1 is in flight is in that probe's collector;
\* the probe's timeout may fire as soon as the clock reaches its deadline, it
\* resolves the probe with the collector's contents, and leaves the
\* probe-in-flight flag false.
C11_ProbeCompleteness ==
    [][/\ \A i \in 1..Len(wire) :
             (Deliver("e1", i) /\ IsPong("e1", i) /\ wire[i].data[1].source # source("e1")) =>
                 \A probe \in DOMAIN pingTimers["e1"] :
                     wire[i].data[1].source \in SeqToSet(collectors'["e1"][probe])
       /\ \A probe \in DOMAIN pingTimers["e1"] :
             PingTimeout("e1", probe) =>
                 /\ pingResult'["e1"][probe] = collectors["e1"][probe]
                 /\ ~isPingInProgress'["e1"]]_vars

\* C12 Teardown cancels a probe: a closeChannel or an unmount of an open
\* endpoint with a probe in flight cancels the probe's timer, discards its
\* collector and resolves the probe empty.
C12_TeardownCancelsProbe ==
    [][((CloseChannel("e2") \/ Unmount("e2", FALSE)) /\ channel["e2"]) =>
          /\ pingTimers'["e2"] = EmptyMap
          /\ activeSourcesCollector'["e2"] = None
          /\ \A probe \in DOMAIN pingTimers["e2"] : pingResult'["e2"][probe] = <<>>]_vars

\* The transmissions endpoint e has made.
SentBy(e, w) == SelectSeq(w, LAMBDA t : t.from = e)

\* closeChannel has been called on endpoint e: its channel is closed, or the
\* step just taken was the call.
CloseChannelCalled(e) == ~channel[e] \/ (last.op = "CloseChannel" /\ last.e = e)

\* C13 After closeChannel: once closeChannel has been called on e2, no step
\* (batching timer, send, clearSent with sync, presence-reply, unmount) adds a
\* transmission of e2 to the bus, and no step changes e2's received
\* collection or its deduplication record; the call itself leaves the channel
\* closed.
C13_NothingAfterClose ==
    [][/\ CloseChannelCalled("e2") =>
             /\ SentBy("e2", wire') = SentBy("e2", wire)
             /\ messages'["e2"] = messages["e2"]
             /\ receivedMessageIds'["e2"] = receivedMessageIds["e2"]
       /\ CloseChannel("e2") => ~channel'["e2"]]_vars

\* e2 closed its channel with a batch pending; the batching timer has just
\* fired and failed, and the bus carries a user envelope and a
\* presence-request of e1 that e2 never took in nor answered.
C13_Witness ==
    /\ ~channel["e2"] /\ mounted["e2"]
    /\ last.op = "BatchTimerFire" /\ last.e = "e2"
    /\ batchingErrorRef["e2"]
    /\ Len(sentMessages["e2"]) = 1
    /\ SentBy("e2", wire) = <<>>
    /\ messages["e2"] = <<>>
    /\ \E i \in 1..Len(wire) : wire[i].data[1].type = T1
    /\ \E i \in 1..Len(wire) : wire[i].data[1].type = internalTypes("e2").PING

\* C14 Teardown is idempotent: close() is called at most once on an
\* endpoint's channel over any sequence of closeChannel calls and an unmount,
\* and a closeChannel call on a closed channel changes nothing of the
\* endpoint's state.
C14_TeardownIdempotent ==
    [][/\ closeCalls'["e2"] <= 1
       /\ (CloseChannel("e2") /\ ~channel["e2"]) =>
             UNCHANGED <<now, nextId, cfg, onMessageCalls, mounted, channel, closeCalls, cleaningTimer,
                         debounceTimer, messages, sentMessages, error, isPingInProgress,
                         pingClosure, receivedMessageIds, activeSourcesCollector, collectors, pingTimers, pingResult,
                         batchingTimeoutRef, batchingMessagesRef, batchingErrorRef, wire>>
       /\ (Unmount("e2", FALSE) /\ ~channel["e2"]) =>
             UNCHANGED <<channel, closeCalls, wire, messages, sentMessages>>]_vars

\* closeChannel has just been called on e2 after an earlier call had closed
\* the channel (a send in between was refused for want of a channel).
C14_Witness ==
    /\ last.op = "CloseChannel" /\ last.e = "e2"
    /\ error["e2"] = ERR_UNSUPPORTED
    /\ closeCalls["e2"] = 1
    /\ ~channel["e2"]

\* The positions of a payload whose envelope endpoint e accepts: it passes
\* the guards before deduplication and its id has no record inside the
\* window when the payload arrives (the envelopes of one payload have
\* different ids).
AcceptedPositions(e, data) ==
    {k \in 1..Len(data) :
        ReachesDedup(e, data[k]) /\ ~IsDuplicate(e, receivedMessageIds[e], data[k], now)}

\* The largest member of a non-empty set of numbers.
MaxOf(S) == CHOOSE x \in S : \A y \in S : y <= x

\* C15 Keep-latest: the received collection of the keep-latest endpoint e1
\* never has more than one entry, and after a payload of which e1 accepts at
\* least one envelope it holds exactly the envelope accepted last, in arrival
\* order; a payload of which it accepts none leaves the collection as it was.
C15_KeepLatest ==
    [][/\ Len(messages'["e1"]) <= 1
       /\ \A i \in 1..Len(wire) :
             Deliver("e1", i) =>
                 LET acc == AcceptedPositions("e1", wire[i].data)
                 IN  IF acc = {} THEN messages'["e1"] = messages["e1"]
                     ELSE messages'["e1"] = <<wire[i].data[MaxOf(acc)]>>]_vars

\* e1 has just accepted an envelope in place of one that was created later
\* and arrived earlier.
C15_Witness ==
    /\ last.op = "Deliver" /\ last.e = "e1" /\ last.accepted > 0
    /\ Len(messages["e1"]) = 1
    /\ \E i \in 1..Len(wire) :
          /\ i # last.i
          /\ wire[i].data[1].id \in DOMAIN receivedMessageIds["e1"]
          /\ wire[i].data[1].id > messages["e1"][1].id
          /\ wire[i].data[1].timestamp > messages["e1"][1].timestamp

\* C16 Allow-list: with a non-empty allow-list every envelope of e1's
\* received collection has a type of the list; with an empty allow-list
\* every envelope of a payload that is well-formed, not e1's own, not a
\* control envelope, unexpired and not a duplicate is accepted, whatever its
\* type.
C16_AllowList ==
    [][/\ cfg["e1"].registeredTypes # {} =>
             \A k \in 1..Len(messages'["e1"]) : messages'["e1"][k].type \in cfg["e1"].registeredTypes
       /\ \A i \in 1..Len(wire) :
             (Deliver("e1", i) /\ cfg["e1"].registeredTypes = {}) =>
                 \A k \in 1..Len(wire[i].data) :
                     LET m == wire[i].data[k]
                     IN  (/\ isValidMessage(m)
                          /\ m.source # source("e1")
                          /\ ~isInternalType(m.type)
                          /\ ~isMessageExpired(m, now)
                          /\ ~IsDuplicate("e1", receivedMessageIds["e1"], m, now)) =>
                              Count(messages'["e1"], m) = Count(messages["e1"], m) + 1]_vars

\* e1 allows T1 only and holds a T1 envelope; it has just processed a T2
\* envelope of another identity that it had never seen, and dropped it.
C16_Witness ==
    /\ cfg["e1"].registeredTypes = {T1}
    /\ last.op = "Deliver" /\ last.e = "e1" /\ last.accepted = 0
    /\ wire[last.i].data[1].type = T2
    /\ wire[last.i].data[1].source # source("e1")
    /\ wire[last.i].data[1].id \notin DOMAIN receivedMessageIds["e1"]
    /\ Len(messages["e1"]) = 1

\* C17 Expiry at arrival: an envelope of a payload whose expirationDate is a
\* number below the clock (0 included) is not added to e1's received
\* collection; one that carries no expirationDate, is well-formed, not e1's
\* own and not a control envelope is added.
C17_ExpiryAtArrival ==
    [][\A i \in 1..Len(wire) :
          Deliver("e1", i) =>
              \A k \in 1..Len(wire[i].data) :
                  LET m == wire[i].data[k]
                  IN  /\ (m.expirationDate # None /\ m.expirationDate < now) =>
                             Count(messages'["e1"], m) = Count(messages["e1"], m)
                      /\ (/\ m.expirationDate = None
                          /\ isValidMessage(m)
                          /\ m.source # source("e1")
                          /\ ~isInternalType(m.type)) =>
                             Count(messages'["e1"], m) = Count(messages["e1"], m) + 1]_vars

\* e1 holds the envelope of this id, and the envelope carries an expiration
\* date that was not yet passed when the clock started.
HoldsExpiring(e, id) ==
    \E k \in 1..Len(messages[e]) :
        /\ messages[e][k].id = id
        /\ messages[e][k].expirationDate # None
        /\ messages[e][k].expirationDate >= 1

\* the entries of a collection the sweep has to keep at this clock
NotDue(s, clock) ==
    SelectSeq(s, LAMBDA m : m.expirationDate = None \/ m.expirationDate >= clock)

\* C18 Expiry sweep: on e1, mounted with a sweep interval of one unit and
\* any debounce delay, every held envelope that carries an expiration date
\* is eventually removed; and no run of the cleanup removes an entry that has
\* no expiration date or whose expiration date is not passed.
C18_ExpirySweep ==
    /\ \A id \in 1..MaxId : HoldsExpiring("e1", id) ~> ~HoldsExpiring("e1", id)
    /\ [][(IntervalFire("e1") \/ DebounceFire("e1")) =>
             NotDue(messages'["e1"], now) = NotDue(messages["e1"], now)]_vars

\* Transmission i is a remote-clear envelope as endpoint e understands it.
IsRemoteClear(e, i) == ~wire[i].batch /\ wire[i].data[1].type = internalTypes(e).CLEAR_SENT_MESSAGES

\* C19 Remote clear scoping: when e1 processes a remote-clear envelope of
\* origin O with criteria ids and types, its received collection loses
\* exactly the messages of origin O that match every non-empty criterion
\* and keeps the others in order; e1's sent history and deduplication
\* record keep their values.
C19_RemoteClearScoping ==
    [][\A i \in 1..Len(wire) :
          (Deliver("e1", i) /\ IsRemoteClear("e1", i)) =>
              LET clear == wire[i].data[1]
              IN  /\ messages'["e1"] =
                        SelectSeq(messages["e1"],
                                  LAMBDA m : ~(/\ m.source = clear.source
                                               /\ MatchesEveryCriterion(m, clear.message.ids,
                                                                        clear.message.types, {})))
                  /\ sentMessages'["e1"] = sentMessages["e1"]
                  /\ receivedMessageIds'["e1"] = receivedMessageIds["e1"]]_vars

\* e1 held a message of e2 and one of e3 and has just processed e2's
\* remote clear: e3's message alone is left.
C19_Witness ==
    /\ last.op = "Deliver" /\ last.e = "e1"
    /\ IsRemoteClear("e1", last.i)
    /\ wire[last.i].from = "e2"
    /\ Len(messages["e1"]) = 1
    /\ messages["e1"][1].source = source("e3")
    /\ \E id \in DOMAIN receivedMessageIds["e1"] :
          \E i \in 1..Len(wire) : wire[i].from = "e2" /\ wire[i].data[1].id = id

\* C20 clearSent: on the open endpoint e2, clearSentMessages({ids, types,
\* sync}) removes from the sent history exactly the entries that match every
\* non-empty criterion, all of them e2's own, keeps the others in order,
\* leaves every received collection alone, and transmits one remote-clear
\* envelope carrying ids and types when sync is set, nothing otherwise.
C20_ClearSent ==
    [][\A ids \in {{}, {1}}, types \in {{}, {T1}}, sync \in BOOLEAN :
          (ClearSentMessages("e2", ids, types, sync) /\ channel["e2"]) =>
              /\ sentMessages'["e2"] =
                    SelectSeq(sentMessages["e2"],
                              LAMBDA m : ~MatchesEveryCriterion(m, ids, types, {}))
              /\ \A k \in 1..Len(sentMessages["e2"]) :
                    sentMessages["e2"][k] \notin SeqToSet(sentMessages'["e2"]) =>
                        sentMessages["e2"][k].source = source("e2")
              /\ messages' = messages
              /\ IF sync
                 THEN /\ Len(wire') = Len(wire) + 1
                      /\ SubSeq(wire', 1, Len(wire)) = wire
                      /\ Last(wire').from = "e2"
                      /\ Len(Last(wire').data) = 1
                      /\ Last(wire').data[1].type = internalTypes("e2").CLEAR_SENT_MESSAGES
                      /\ Last(wire').data[1].message = [ids |-> ids, types |-> types]
                      /\ Last(wire').data[1].source = source("e2")
                 ELSE wire' = wire]_vars

\* e2 had sent envelope 1 of type T1 and envelope 2 of type T2 and has just
\* cleared {ids: [1], types: [T1]} with sync: envelope 2 is left in its sent
\* history and the remote-clear envelope is the last transmission.
C20_Witness ==
    /\ last.op = "ClearSentMessages" /\ last.e = "e2"
    /\ Len(sentMessages["e2"]) = 1
    /\ sentMessages["e2"][1].id = 2
    /\ sentMessages["e2"][1].type = T2
    /\ IsRemoteClear("e2", Len(wire))
    /\ Last(wire).data[1].message = [ids |-> {1}, types |-> {T1}]
    /\ \E i \in 1..Len(wire) : wire[i].data[1].id = 1 /\ wire[i].data[1].type = T1

\* C21 Sent history records intent: a send of e2 on an open channel appends
\* exactly one envelope, new and of the sent type and e2's source, to the end
\* of e2's sent history, whether it is transmitted, buffered or its
\* transmission throws; no other step (a batching timer that transmits,
\* fails or discards a poisoned batch, a teardown) changes the sent history.
C21_SentHistory ==
    [][/\ \A t \in {T1, Urgent}, throws \in BOOLEAN :
             (PostMessage("e2", t, None, None, throws) /\ channel["e2"]) =>
                 /\ Len(sentMessages'["e2"]) = Len(sentMessages["e2"]) + 1
                 /\ SubSeq(sentMessages'["e2"], 1, Len(sentMessages["e2"])) = sentMessages["e2"]
                 /\ Last(sentMessages'["e2"]).id = nextId
                 /\ Last(sentMessages'["e2"]).type = t
                 /\ Last(sentMessages'["e2"]).source = source("e2")
                 /\ \A k \in 1..Len(sentMessages["e2"]) :
                       sentMessages["e2"][k].id # nextId
       /\ ~(last'.op = "PostMessage" /\ last'.e = "e2") =>
             sentMessages'["e2"] = sentMessages["e2"]]_vars

\* e2's immediate send of Urgent threw and poisoned the window, and its send
\* of T1 has just been buffered: the sent history holds both although the
\* bus carries nothing of e2.
C21_Witness ==
    /\ last.op = "PostMessage" /\ last.e = "e2"
    /\ channel["e2"]
    /\ batchingErrorRef["e2"]
    /\ Len(sentMessages["e2"]) = 2
    /\ sentMessages["e2"][1].type = Urgent
    /\ sentMessages["e2"][2].type = T1
    /\ batchingMessagesRef["e2"] = <<sentMessages["e2"][2]>>
    /\ SentBy("e2", wire) = <<>>

\* A send of e2 without a bus handle transmits nothing, records and buffers
\* nothing, arms no timer and sets the error slot.
SendIsInert ==
    \A t \in {T1, Urgent} :
        PostMessage("e2", t, None, None, FALSE) =>
            /\ wire' = wire
            /\ sentMessages' = sentMessages
            /\ batchingMessagesRef' = batchingMessagesRef
            /\ batchingTimeoutRef' = batchingTimeoutRef
            /\ error'["e2"] = ERR_UNSUPPORTED

\* A probe of e2 without a bus handle transmits nothing, arms no timer, is
\* resolved at once with the empty result, sets the error slot and leaves
\* the probe-in-flight flag false.
ProbeIsInert ==
    Ping("e2", 1) =>
        /\ wire' = wire
        /\ pingTimers' = pingTimers
        /\ \E probe \in DOMAIN pingResult'["e2"] \ DOMAIN pingResult["e2"] :
              pingResult'["e2"][probe] = <<>>
        /\ error'["e2"] = ERR_UNSUPPORTED
        /\ ~isPingInProgress'["e2"]

\* C22 Transport unavailable: while e2 holds no bus handle (never
\* constructed, or closed), its sends and its probes are inert and report
\* the error.
C22_TransportUnavailable ==
    [][~channel["e2"] => (SendIsInert /\ ProbeIsInert)]_vars

\* id, type and source are strings and timestamp is a number.
HasEnvelopeShape(message) ==
    /\ Kinds(message).value = "object"
    /\ Kinds(message).id = "string"
    /\ Kinds(message).type = "string"
    /\ Kinds(message).source = "string"
    /\ Kinds(message).timestamp = "number"

\* C23 Shape validation: a payload that is not an object with a string id,
\* a string type, a string source and a number timestamp changes neither
\* e1's received collection nor its error slot when e1 processes it.
C23_ShapeValidation ==
    [][\A i \in 1..Len(wire) :
          (Deliver("e1", i) /\ ~wire[i].batch /\ ~HasEnvelopeShape(wire[i].data[1])) =>
              /\ messages'["e1"] = messages["e1"]
              /\ error'["e1"] = error["e1"]]_vars

\* C24 buildEnvelope: the envelope a send of e2 builds has the given type,
\* payload and e2's source, the clock value as timestamp, and as
\* expirationDate the absolute expiry when one is given, otherwise the clock
\* value plus the duration when a duration (0 included) is given, otherwise
\* none.
C24_BuildEnvelope ==
    [][\A t \in {T1, T2}, expirationDate \in {None} \cup 0..MaxTime,
          expirationDuration \in {None, 0, 1} :
          PostMessage("e2", t, expirationDate, expirationDuration, FALSE) =>
              LET built == Last(sentMessages'["e2"])
              IN  /\ built.type = t
                  /\ built.message = NullContent
                  /\ built.source = source("e2")
                  /\ built.timestamp = now
                  /\ built.expirationDate =
                        IF expirationDate # None THEN expirationDate
                        ELSE IF expirationDuration # None THEN now + expirationDuration
                        ELSE None]_vars

\* The (channelName, namespace) pair of an endpoint.
ChannelPair(e) == <<cfg[e].channelName, cfg[e].namespace>>

\* C25 Namespace isolation: an endpoint never holds an envelope sent by an
\* endpoint whose (channelName, namespace) pair differs from its own.
C25_NamespaceIsolation ==
    \A e \in E, f \in E :
        ChannelPair(e) # ChannelPair(f) =>
            \A k \in 1..Len(messages[e]) : messages[e][k].source # source(f)

\* C26 internalTag is injective: two remote-clear envelopes on the bus carry
\* different internal types whenever the (channelName, namespace) pairs of
\* the endpoints that built them differ.
C26_InternalTagInjective ==
    \A i \in 1..Len(wire), j \in 1..Len(wire) :
        (/\ isInternalType(wire[i].data[1].type)
         /\ isInternalType(wire[j].data[1].type)
         /\ ChannelPair(wire[i].from) # ChannelPair(wire[j].from)) =>
            wire[i].data[1].type # wire[j].data[1].type

\* The indices of the entries of msgs that a {source, type} filter matches.
MatchingFilter(msgs, src, type) ==
    {k \in 1..Len(msgs) : /\ src = "" \/ msgs[k].source = src
                          /\ type = NoType \/ msgs[k].type = type}

\* C27 getLatest: getLatestMessage({source, type}) on e1 returns the entry of
\* highest index among those whose source and type equal the non-empty
\* filters, none exactly when there is no such entry, and changes no state.
C27_GetLatest ==
    [][\A src \in {"", "b"}, type \in {NoType, T2} :
          GetLatestMessage("e1", src, type) =>
              /\ last'.i = IF MatchingFilter(messages["e1"], src, type) = {} THEN 0
                           ELSE MaxOf(MatchingFilter(messages["e1"], src, type))
              /\ UNCHANGED <<now, nextId, cfg, onMessageCalls, mounted, channel, closeCalls, cleaningTimer,
                             debounceTimer, messages, sentMessages, error, isPingInProgress,
                             pingClosure, receivedMessageIds, activeSourcesCollector, collectors,
                             pingTimers, pingResult, batchingTimeoutRef, batchingMessagesRef,
                             batchingErrorRef, wire>>]_vars

\* e1 holds two envelopes of one source and type, the later-arrived one with
\* the older timestamp, and getLatestMessage has just returned the
\* later-arrived one.
C27_Witness ==
    /\ last.op = "GetLatestMessage" /\ last.e = "e1"
    /\ Len(messages["e1"]) = 2
    /\ messages["e1"][1].source = messages["e1"][2].source
    /\ messages["e1"][1].type = messages["e1"][2].type
    /\ messages["e1"][1].timestamp > messages["e1"][2].timestamp
    /\ last.i = 2

\* The elements of data that endpoint e accepts when nothing goes wrong:
\* well-formed user envelopes of another source, of an allowed type, whose
\* id e has no record of.
NormallyAccepted(e, data) ==
    SelectSeq(data, LAMBDA m : /\ HasEnvelopeShape(m)
                               /\ m.source # source(e)
                               /\ ~isInternalType(m.type)
                               /\ cfg[e].registeredTypes = {} \/ m.type \in cfg[e].registeredTypes
                               /\ m.id \notin DOMAIN receivedMessageIds[e])

\* The read of the id of some element of data throws in e's guard chain.
RaisesException(e, data) ==
    \E k \in 1..Len(data) :
        /\ IdThrows(data[k])
        /\ cfg[e].registeredTypes = {} \/ data[k].type \in cfg[e].registeredTypes

\* C28 Processing exception: when the guard chain of e1 throws on an element
\* of a transmission, e1's error slot holds the processing-error message
\* afterwards; in every transmission, whatever threw before or in it, the
\* received collection gains exactly the envelopes accepted normally, in
\* order, and the deduplication record exactly their ids.
C28_ProcessingException ==
    [][\A i \in 1..Len(wire) :
          Deliver("e1", i) =>
              /\ RaisesException("e1", wire[i].data) => error'["e1"] = ERR_PROCESS
              /\ messages'["e1"] = messages["e1"] \o NormallyAccepted("e1", wire[i].data)
              /\ DOMAIN receivedMessageIds'["e1"] =
                    DOMAIN receivedMessageIds["e1"]
                        \cup {m.id : m \in SeqToSet(NormallyAccepted("e1", wire[i].data))}]_vars

\* e1 has just processed an array whose first element threw and whose second
\* element it accepted: the error slot holds the processing error.
C28_Witness ==
    /\ last.op = "Deliver" /\ last.e = "e1" /\ last.accepted = 1
    /\ wire[last.i].batch
    /\ IdThrows(wire[last.i].data[1])
    /\ error["e1"] = ERR_PROCESS
    /\ messages["e1"] # <<>>
    /\ Last(messages["e1"]) = wire[last.i].data[2]
    /\ wire[last.i].data[1].id \notin DOMAIN receivedMessageIds["e1"]

FailsGuard(e, m) ==
    \/ ~HasEnvelopeShape(m)
    \/ m.source = source(e)
    \/ /\ ~isInternalType(m.type)
       /\ \/ cfg[e].registeredTypes # {} /\ m.type \notin cfg[e].registeredTypes
          \/ m.expirationDate # None /\ m.expirationDate < now
          \/ /\ m.id \in DOMAIN receivedMessageIds[e]
             /\ now - receivedMessageIds[e][m.id] < cfg[e].deduplicationTTL

\* C30 A dropped envelope changes nothing: when every envelope of a
\* transmission e1 processes fails a guard, e1's received collection, sent
\* history, deduplication record, pending send buffer and error slot are
\* unchanged.
C30_DroppedChangesNothing ==
    [][\A i \in 1..Len(wire) :
          (Deliver("e1", i) /\ \A k \in 1..Len(wire[i].data) : FailsGuard("e1", wire[i].data[k])) =>
              /\ messages'["e1"] = messages["e1"]
              /\ sentMessages'["e1"] = sentMessages["e1"]
              /\ receivedMessageIds'["e1"] = receivedMessageIds["e1"]
              /\ batchingMessagesRef'["e1"] = batchingMessagesRef["e1"]
              /\ error'["e1"] = error["e1"]]_vars

\* handleMessage run on the elements k, k+1, ... of data, one call each, as
\* the listener runs it on a payload that is no array.
RECURSIVE OneByOne(_, _, _, _)
OneByOne(e, st, data, k) ==
    IF k > Len(data) THEN st
    ELSE OneByOne(e, HandleMessage(e, st, data[k]), data, k + 1)

\* The element m of a payload is dropped by a guard of e in the state before
\* the payload is processed.
DroppedOnArrival(e, m) ==
    \/ IsSelfMessage(e, m)
    \/ /\ ~isInternalType(m.type)
       /\ \/ IsIgnoredType(e, m)
          \/ isMessageExpired(m, now)
          \/ IsDuplicate(e, receivedMessageIds[e], m, now)

\* C31 Batch unwrapping: when e1 processes an array, its received collection,
\* deduplication record, collectors and the bus are afterwards what one call
\* of the handler per element, in the array's order, makes of them; an
\* element that is of e1's own origin, outside the allow-list, expired or a
\* duplicate is not appended, whatever the other elements are.
C31_BatchUnwrap ==
    [][\A i \in 1..Len(wire) :
          (Deliver("e1", i) /\ wire[i].batch) =>
              LET st == OneByOne("e1", LocalState("e1"), wire[i].data, 1)
              IN  /\ messages'["e1"] = st.messages
                  /\ receivedMessageIds'["e1"] = st.rids
                  /\ collectors'["e1"] = st.colls
                  /\ wire' = st.wire
                  /\ \A k \in 1..Len(wire[i].data) :
                        DroppedOnArrival("e1", wire[i].data[k]) =>
                            Count(messages'["e1"], wire[i].data[k]) = Count(messages["e1"], wire[i].data[k])]_vars

\* e1, allowing T1 only, has just processed an array of e2 holding a T2
\* envelope followed by a T1 envelope, and accepted the second one alone.
C31_Witness ==
    /\ last.op = "Deliver" /\ last.e = "e1" /\ last.accepted = 1
    /\ wire[last.i].batch /\ wire[last.i].from = "e2"
    /\ Len(wire[last.i].data) = 2
    /\ wire[last.i].data[1].type = T2
    /\ wire[last.i].data[2].type = T1
    /\ messages["e1"] = <<wire[last.i].data[2]>>
    /\ DOMAIN receivedMessageIds["e1"] = {wire[last.i].data[2].id}

\* C32 Immediate send: when e2's batching window is 0 or negative, or the
\* type is excluded from batching, a send of e2 whose transmission does not
\* throw appends exactly one transmission to the bus, the envelope it built
\* alone and not as an array, and a send that throws appends none; either
\* way the pending buffer and the batching timer are unchanged.
C32_ImmediateSend ==
    [][\A t \in {T1, Urgent}, throws \in BOOLEAN :
          (/\ PostMessage("e2", t, None, None, throws)
           /\ channel["e2"]
           /\ \/ cfg["e2"].batchingDelayMs <= 0
              \/ t \in cfg["e2"].excludedBatchMessageTypes) =>
              /\ batchingMessagesRef' = batchingMessagesRef
              /\ batchingTimeoutRef' = batchingTimeoutRef
              /\ IF throws
                 THEN wire' = wire
                 ELSE /\ Len(wire') = Len(wire) + 1
                      /\ SubSeq(wire', 1, Len(wire)) = wire
                      /\ Last(wire').from = "e2"
                      /\ ~Last(wire').batch
                      /\ Last(wire').data = <<Last(sentMessages'["e2"])>>
                      /\ Last(wire').data[1].id = nextId
                      /\ Last(wire').data[1].type = t]_vars

\* e2, whose window is one clock unit, holds a T1 envelope in its buffer and
\* has just sent an Urgent envelope, which is on the bus alone.
C32_Witness ==
    /\ last.op = "PostMessage" /\ last.e = "e2"
    /\ cfg["e2"].batchingDelayMs = 1
    /\ Len(batchingMessagesRef["e2"]) = 1
    /\ batchingMessagesRef["e2"][1].type = T1
    /\ batchingTimeoutRef["e2"] # None
    /\ Len(wire) = 1
    /\ ~wire[1].batch
    /\ wire[1].data = <<Last(sentMessages["e2"])>>
    /\ wire[1].data[1].type = Urgent

\* A send of endpoint e failed since its pending window opened.
FailedInWindow(e) ==
    /\ batchingMessagesRef[e] # <<>>
    /\ \E m \in FailedImmediateSends(e) : m.id > batchingMessagesRef[e][1].id

\* C33 Fail-fast discard: when e2's batching timer fires after a send of e2
\* failed in the open window, nothing is transmitted, the buffer becomes
\* empty, no timer stays armed and the sent history keeps the discarded
\* envelopes; and every array e2 ever transmits is the buffer of that
\* moment, so that a discarded envelope is not transmitted later either.
C33_FailFastDiscard ==
    [][/\ \A throws \in BOOLEAN :
             (BatchTimerFire("e2", throws) /\ FailedInWindow("e2")) =>
                 /\ wire' = wire
                 /\ batchingMessagesRef'["e2"] = <<>>
                 /\ batchingTimeoutRef'["e2"] = None
                 /\ sentMessages'["e2"] = sentMessages["e2"]
                 /\ SeqToSet(batchingMessagesRef["e2"]) \subseteq SeqToSet(sentMessages["e2"])
       /\ \A i \in 1..Len(wire') :
             (wire'[i].from = "e2" /\ wire'[i].batch /\ i > Len(wire)) =>
                 wire'[i].data = batchingMessagesRef["e2"]]_vars

\* e2 buffered a T1 envelope, then a send of Urgent threw, and the timer has
\* just fired: the bus is empty, the buffer too, and the sent history holds
\* both envelopes.
C33_Witness ==
    /\ last.op = "BatchTimerFire" /\ last.e = "e2"
    /\ mounted["e2"] /\ channel["e2"]
    /\ wire = <<>>
    /\ batchingMessagesRef["e2"] = <<>> /\ batchingTimeoutRef["e2"] = None
    /\ Len(sentMessages["e2"]) = 2
    /\ sentMessages["e2"][1].type = T1
    /\ sentMessages["e2"][2].type = Urgent
    /\ batchingErrorRef["e2"]

\* Transmission i is a presence-request as endpoint e understands it.
IsPing(e, i) == ~wire[i].batch /\ wire[i].data[1].type = internalTypes(e).PING

\* C34 Presence reply: when e2 processes a presence-request of another
\* identity, the bus gains exactly one transmission, a single presence-reply
\* of e2's identity; when the request carries e2's identity the bus gains
\* nothing; either way e2's pending buffer, batching timer, sent history and
\* received collection are unchanged.
C34_PresenceReply ==
    [][\A i \in 1..Len(wire) :
          (Deliver("e2", i) /\ IsPing("e2", i)) =>
              /\ IF wire[i].data[1].source # source("e2")
                 THEN /\ Len(wire') = Len(wire) + 1
                      /\ SubSeq(wire', 1, Len(wire)) = wire
                      /\ Last(wire').from = "e2"
                      /\ ~Last(wire').batch
                      /\ Len(Last(wire').data) = 1
                      /\ Last(wire').data[1].type = internalTypes("e2").PONG
                      /\ Last(wire').data[1].source = source("e2")
                      /\ Last(wire').data[1].id = nextId
                 ELSE wire' = wire
              /\ batchingMessagesRef' = batchingMessagesRef
              /\ batchingTimeoutRef' = batchingTimeoutRef
              /\ sentMessages' = sentMessages
              /\ messages' = messages]_vars

\* e2, whose buffer holds a T1 envelope while its window of one clock unit is
\* open, has just answered e1's presence-request: the reply is on the bus and
\* the envelope still in the buffer.
C34_Witness ==
    /\ last.op = "Deliver" /\ last.e = "e2"
    /\ IsPing("e2", last.i)
    /\ cfg["e2"].batchingDelayMs = 1
    /\ Len(batchingMessagesRef["e2"]) = 1
    /\ batchingTimeoutRef["e2"] # None
    /\ Last(wire).from = "e2"
    /\ Last(wire).data[1].type = internalTypes("e2").PONG
    /\ Last(wire).data[1].source = "b"
    /\ Len(sentMessages["e2"]) = 1
    /\ messages["e2"] = <<>>

C36_ReachablePeersOnly ==
    \A probe \in DOMAIN pingTimers["e1"] :
        ~channel["e2"] => "b" \notin SeqToSet(collectors["e1"][probe])

\* The ids of a sequence of envelopes, in order.  Ids are drawn in call
\* order, so a later call has the larger id.
IdsOf(s) == [i \in 1..Len(s) |-> s[i].id]

Increasing(ids) == \A i, j \in 1..Len(ids) : i < j => ids[i] < ids[j]

\* The envelopes endpoint e has put on the bus, batches unwrapped, in order.
RECURSIVE EnvelopesOnWire(_, _)
EnvelopesOnWire(e, w) ==
    IF w = <<>> THEN <<>>
    ELSE (IF Head(w).from = e THEN Head(w).data ELSE <<>>) \o EnvelopesOnWire(e, Tail(w))

\* The envelopes endpoint e has transmitted directly, in order.
RECURSIVE DirectOnWire(_, _)
DirectOnWire(e, w) ==
    IF w = <<>> THEN <<>>
    ELSE (IF Head(w).from = e /\ ~Head(w).batch THEN Head(w).data ELSE <<>>) \o DirectOnWire(e, Tail(w))

\* C37 (as stated) Per-sender order: the envelopes e2 has put on the bus are
\* there in the order of the calls that created them, for every batching
\* window and every exclusion list.
C37_PerSenderOrder == Increasing(IdsOf(EnvelopesOnWire("e2", wire)))

\* C37 (amended) Per-sender order within one way of sending: with batching
\* off the envelopes of e2 are on the bus in call order; with batching on,
\* the directly transmitted envelopes (excluded types, clearSent with sync)
\* are in call order among themselves, and so are the batched envelopes
\* followed by the pending buffer, while a buffered envelope can be overtaken
\* by a later direct transmission.
C37_OrderWithinOneWay ==
    /\ cfg["e2"].batchingDelayMs <= 0 => Increasing(IdsOf(EnvelopesOnWire("e2", wire)))
    /\ Increasing(IdsOf(DirectOnWire("e2", wire)))
    /\ Increasing(IdsOf(BatchedOnWire("e2", wire) \o batchingMessagesRef["e2"]))

\* e2 buffered an envelope and then cleared its sent history with sync: the
\* clear is on the bus ahead of the batch that carries the older envelope.
C37_Witness ==
    /\ cfg["e2"].batchingDelayMs = 1
    /\ \E i, j \in 1..Len(wire) :
          /\ i < j
          /\ wire[i].from = "e2" /\ IsRemoteClear("e2", i)
          /\ wire[j].from = "e2" /\ wire[j].batch
          /\ wire[j].data[1].id < wire[i].data[1].id

\* The received collection s holds id more than once.
HoldsTwice(s, id) == Cardinality({k \in 1..Len(s) : s[k].id = id}) >= 2

\* C38 (as stated) Unique ids: no two entries of e1's received collection
\* have the same id.
C38_UniqueIds ==
    \A i, j \in 1..Len(messages["e1"]) :
        i # j => messages["e1"][i].id # messages["e1"][j].id

\* C38 (amended) Unique ids within the deduplication window: e1 accepts an
\* envelope whose id its received collection already holds only when the
\* deduplication record holds no receipt of that id younger than the window;
\* so the collection holds an id twice only when the window is 0 or the
\* envelope was created at least a window ago.
C38_UniqueWithinWindow ==
    [][/\ \A i \in 1..Len(wire) :
             (/\ Deliver("e1", i)
              /\ Len(messages'["e1"]) > Len(messages["e1"])
              /\ \E k \in 1..Len(messages["e1"]) : messages["e1"][k].id = wire[i].data[1].id) =>
                 LET receivedAt == MapGet(receivedMessageIds["e1"], wire[i].data[1].id)
                 IN  receivedAt = None \/ now - receivedAt >= cfg["e1"].deduplicationTTL
       /\ \A k \in 1..Len(messages'["e1"]) :
             HoldsTwice(messages'["e1"], messages'["e1"][k].id) =>
                 \/ cfg["e1"].deduplicationTTL = 0
                 \/ now' - messages'["e1"][k].timestamp >= cfg["e1"].deduplicationTTL]_vars

\* With a window of one clock unit e1 has just accepted an envelope for the
\* second time: its received collection holds the id twice.
C38_Witness ==
    /\ cfg["e1"].deduplicationTTL = 1
    /\ last.op = "Deliver" /\ last.e = "e1" /\ last.accepted = 1
    /\ Len(messages["e1"]) = 2
    /\ messages["e1"][1].id = messages["e1"][2].id

\* The local state of endpoint e as it would be had the purge of the
\* deduplication record just run.
PurgedState(e) ==
    [LocalState(e) EXCEPT !.rids = purgeResult(e, receivedMessageIds[e], now)]

\* C40 The deduplication purge is invisible: a purge of e1 deletes exactly
\* the records whose receipt is at least the window old and changes nothing
\* else; the listener accepts and drops the same envelopes of a transmission
\* whether or not a purge ran just before, and leaves the same records
\* younger than the window; and a purge followed by a later purge deletes
\* what the later purge alone deletes.
C40_PurgeInvisible ==
    [][/\ DedupPurge("e1") =>
             /\ DOMAIN receivedMessageIds["e1"] \ DOMAIN receivedMessageIds'["e1"] =
                    {id \in DOMAIN receivedMessageIds["e1"] :
                        now - receivedMessageIds["e1"][id] >= cfg["e1"].deduplicationTTL}
             /\ \A id \in DOMAIN receivedMessageIds'["e1"] :
                    receivedMessageIds'["e1"][id] = receivedMessageIds["e1"][id]
             /\ messages' = messages
       /\ \A i \in 1..Len(wire) :
             Deliver("e1", i) =>
                 LET purged == HandleAll("e1", PurgedState("e1"), wire[i].data)
                 IN  /\ purged.messages = messages'["e1"]
                     /\ purged.accepted = last'.accepted
                     /\ purgeResult("e1", purged.rids, now) =
                            purgeResult("e1", receivedMessageIds'["e1"], now)
       /\ \A clock \in now..MaxTime :
             purgeResult("e1", purgeResult("e1", receivedMessageIds["e1"], now), clock) =
                 purgeResult("e1", receivedMessageIds["e1"], clock)]_vars

\* With a window of one clock unit the purge has just deleted the record of
\* an envelope that e1 holds and that is still on the bus.
C40_Witness ==
    /\ cfg["e1"].deduplicationTTL = 1
    /\ last.op = "DedupPurge" /\ last.e = "e1"
    /\ receivedMessageIds["e1"] = EmptyMap
    /\ \E k \in 1..Len(messages["e1"]) : \E i \in 1..Len(wire) :
          wire[i].data[1] = messages["e1"][k]

\* C39 Buffer and timer stay paired: the pending buffer of e2 is non-empty
\* only while its flush timer is armed, and after the teardown of e2 the
\* buffer is empty and no timer is armed.  (batchingTimeoutRef holds at most
\* one timer: a timer is armed only while the ref is empty, and the ref is
\* emptied only by the callback or together with clearTimeout.)
C39_BufferTimerPaired ==
    /\ batchingMessagesRef["e2"] # <<>> => batchingTimeoutRef["e2"] # None
    /\ ~mounted["e2"] => batchingMessagesRef["e2"] = <<>> /\ batchingTimeoutRef["e2"] = None

====
